---- MODULE Spec2Model ----
(***************************************************************************)
(* Model of virttest/env_process.py: the image processing scheduler, the   *)
(* image and VM lifecycle actions, the preprocess/postprocess driver and   *)
(* the two background pollers.                                             *)
(***************************************************************************)
EXTENDS Integers, Sequences, FiniteSets, TLC

None == "None"

\* self.exc_info = None: no exception captured (images are numbered from 1)
NoExc == 0

Min(a, b) == IF a <= b THEN a ELSE b

(***************************************************************************)
(* Bounds of the scheduler model.                                          *)
(***************************************************************************)
MaxImages == 21
MaxCpu == 2

(***************************************************************************)
(* Program constants of process_images / _process_images_parallel.         *)
(***************************************************************************)
ParallelThreshold == 20
ImagesPerThread == 5

VARIABLES
    images,         \* params.objects("images"): the declared image list
    cpu_count,      \* multiprocessing.cpu_count()
    pi_pc,          \* position of the caller inside process_images
    no_threads,     \* _process_images_parallel: number of workers to start
    threads,        \* _process_images_parallel: list of _CreateImages threads
    exit_event,     \* _process_images_parallel: the shared threading.Event
    scan,           \* index of the thread inspected by the wait loop
    serial_calls,   \* image_func invocations made on the calling thread
    pi_raised       \* exception leaving process_images (name of the failing image)

schedVars == <<images, cpu_count, pi_pc, no_threads, threads, exit_event,
               scan, serial_calls, pi_raised>>

VARIABLES
    img_func,       \* which image function is called: "pre" or "post"
    img_params,     \* params: the image's scoped configuration (a dict)
    img_name,       \* image_name
    img_status,     \* vm_process_status
    img_existed,    \* storage.file_exists(...) when the function is entered
    img_exists,     \* whether the image file exists now
    img_info,       \* outcome of image.info() during the call
    img_chk,        \* outcome of image.check_image() during the call
    img_ops,        \* backend operations performed by the call, in order
    img_pc          \* "call", then "returned" or "raised"

imgVars == <<img_func, img_params, img_name, img_status, img_existed,
             img_exists, img_info, img_chk, img_ops, img_pc>>

VARIABLES
    scenario,           \* which family of test configurations is being run
    params,             \* the params dict handed to preprocess and postprocess
    env,                \* the Environment: registered VM name -> VM status
    bridge,             \* whether the private bridge is set up on the host
    applied,            \* host tuning setups applied by preprocess
    grub,               \* the guest's boot configuration file, as lines of tokens
    kernel_modified,    \* module global kernel_modified
    kernel_cmdline,     \* module global kernel_cmdline
    screendump_thread,  \* module global _screendump_thread
    vm_register_thread, \* module global _vm_register_thread
    drv_pc,             \* position of the main thread in preprocess/postprocess
    err,                \* postprocess: the aggregate error message, as a list
    cleaned,            \* postprocess: cleanups invoked so far
    pp_exc,             \* the exception a driver function raised, if any
    grub_prepatch,      \* the boot configuration when preprocess patched it
    patched,            \* preprocess of this test patched the boot configuration
    intervened,         \* the test changed the boot configuration itself
    tests               \* number of tests the runner has started

drvVars == <<scenario, params, env, bridge, applied, grub, kernel_modified,
             kernel_cmdline, screendump_thread, vm_register_thread, drv_pc,
             err, cleaned, pp_exc, grub_prepatch, patched, intervened, tests>>

VARIABLES
    poll_kind,          \* the poller: "ScreenDump" or "VmRegister"
    poll_env,           \* the VMs registered in the Environment
    termination_event,  \* its module-level event reference: None, or the
                        \* state "unset" / "set" of the Event it is bound to
    poller_thread,      \* its module-level thread reference: a slot or NoThread
    pollers,            \* slot -> position of the thread in its loop,
                        \* whether the Event created with it has been set,
                        \* and how its last wait(delay) returned
    poll_pc,            \* position of the driver: "idle", "test", "join"
    set_failed          \* the last postprocess raised from set() on None

pollVars == <<poll_kind, poll_env, termination_event, poller_thread, pollers,
              poll_pc, set_failed>>

VARIABLES
    vm_params,          \* params of the VM
    vm_state,           \* "running", "paused" or "dead"
    serial_console,     \* whether vm.serial_console is not None
    serial_output,      \* what read_until_output_matches gives
    vm_pc,              \* "call" or "done"
    vm_raised,          \* the exception that left preprocess_vm, or None
    vm_log              \* what was logged

vmVars == <<vm_params, vm_state, serial_console, serial_output, vm_pc,
            vm_raised, vm_log>>

VARIABLES
    sd_watcher,         \* inactivity_watcher
    sd_treshold,        \* inactivity_treshold
    sd_now,             \* time.time()
    sd_cache,           \* cache: fingerprint -> first file saved with it
    sd_counter,         \* counter: VM instance -> frame number
    sd_inactivity,      \* inactivity: VM instance -> clock of the last change
    sd_errors,          \* entries put on test.background_errors
    sd_prev,            \* VM instance -> fingerprint of its last captured frame
    sd_temp,            \* whether the file temp_filename exists
    sd_files,           \* the screendump files written so far
    sd_event            \* what the last per-VM iteration did

sdVars == <<sd_watcher, sd_treshold, sd_now, sd_cache, sd_counter,
            sd_inactivity, sd_errors, sd_prev, sd_temp, sd_files, sd_event>>

VARIABLES
    vr_error_count,     \* vm_register_error_count: VM instance -> misses
    vr_counter,         \* counter: VM instance -> number of the next log file
    vr_hist,            \* VM instance -> what was logged about its streaks
    vr_summary,         \* the VMs report_result named when the thread quit
    vr_pc,              \* "running" or "quit"
    vr_steps            \* per-VM iterations done

vrVars == <<vr_error_count, vr_counter, vr_hist, vr_summary, vr_pc, vr_steps>>

VARIABLES
    proc_func,          \* "pre": process(..., preprocess_image, preprocess_vm),
                        \* "post": process(..., postprocess_image,
                        \*                 postprocess_vm, vm_first=True)
    proc_params,        \* params
    proc_env,           \* registered VM name -> "running", "paused" or "dead"
    proc_files,         \* the image files that exist
    proc_files0,        \* the image files that existed before preprocess
    proc_created,       \* image -> how many times its file was created
    proc_calls,         \* the calls of image_func and vm_func so far
    proc_stages,        \* the stages of process still to run
    proc_todo,          \* the calls of the current stage still to make
    proc_paused,        \* the VM that _call_image_func paused and will
                        \* resume (unpause_vm is True), or None
    proc_pc             \* "call", "stage", "returned", "raised", and after
                        \* the kill step of postprocess "killed" or
                        \* "kill_raised"

procVars == <<proc_func, proc_params, proc_env, proc_files, proc_files0,
              proc_created, proc_calls, proc_stages, proc_todo, proc_paused,
              proc_pc>>

VARIABLES
    rc_params,          \* params
    rc_params0,         \* params as preprocess received them
    rc_env,             \* the Environment: key -> entry
    rc_env0,            \* the Environment as preprocess found it
    rc_keys,            \* env.keys() still to visit
    rc_dropped,         \* the entries deleted so far, as they were deleted
    rc_pc               \* "merge", "loop", "done" or "raised"

rcVars == <<rc_params, rc_params0, rc_env, rc_env0, rc_keys, rc_dropped, rc_pc>>

VARIABLES
    sv_params,          \* params of the VM
    sv_exists,          \* vm.exists(), looked at for libvirt VMs
    sv_alive,           \* vm.is_alive() when preprocess_vm is entered
    sv_needs_restart,   \* what vm.needs_restart(...) gives when it is called
    sv_start,           \* start_vm, the decision
    sv_ops,             \* the operations on the VM, in order
    sv_pc               \* "call", then "done" or "raised"

svVars == <<sv_params, sv_exists, sv_alive, sv_needs_restart, sv_start,
            sv_ops, sv_pc>>

VARIABLES
    pv_params,          \* params of the VM
    pv_registered,      \* whether env.get_vm(name) finds the VM
    pv_sessions0,       \* vm.remote_sessions when postprocess_vm is entered
    pv_sessions,        \* vm.remote_sessions
    pv_todo,            \* the rest of the copy vm.remote_sessions[:]
    pv_ops,             \* the operations on the VM and its sessions, in order
    pv_pc               \* "call", "sessions", then "returned" or "raised"

pvVars == <<pv_params, pv_registered, pv_sessions0, pv_sessions, pv_todo,
            pv_ops, pv_pc>>

vars == <<schedVars, imgVars, drvVars, pollVars, vmVars, sdVars, vrVars,
          procVars, rcVars, svVars, pvVars>>

notSched ==
    <<imgVars, drvVars, pollVars, vmVars, sdVars, vrVars, procVars,
      rcVars, svVars, pvVars>>
notImg ==
    <<schedVars, drvVars, pollVars, vmVars, sdVars, vrVars, procVars,
      rcVars, svVars, pvVars>>
notDrv ==
    <<schedVars, imgVars, pollVars, vmVars, sdVars, vrVars, procVars,
      rcVars, svVars, pvVars>>
notPoll ==
    <<schedVars, imgVars, drvVars, vmVars, sdVars, vrVars, procVars,
      rcVars, svVars, pvVars>>
notVm ==
    <<schedVars, imgVars, drvVars, pollVars, sdVars, vrVars, procVars,
      rcVars, svVars, pvVars>>
notSd ==
    <<schedVars, imgVars, drvVars, pollVars, vmVars, vrVars, procVars,
      rcVars, svVars, pvVars>>

notVr ==
    <<schedVars, imgVars, drvVars, pollVars, vmVars, sdVars, procVars,
      rcVars, svVars, pvVars>>

RestVr ==
    /\ vr_error_count = <<>>
    /\ vr_counter = <<>>
    /\ vr_hist = <<>>
    /\ vr_summary = {}
    /\ vr_pc = None
    /\ vr_steps = 0

notProc ==
    <<schedVars, imgVars, drvVars, pollVars, vmVars, sdVars, vrVars,
      rcVars, svVars, pvVars>>

RestProc ==
    /\ proc_func = None
    /\ proc_params = <<>>
    /\ proc_env = <<>>
    /\ proc_files = {}
    /\ proc_files0 = {}
    /\ proc_created = <<>>
    /\ proc_calls = <<>>
    /\ proc_stages = <<>>
    /\ proc_todo = <<>>
    /\ proc_paused = None
    /\ proc_pc = None

notRc ==
    <<schedVars, imgVars, drvVars, pollVars, vmVars, sdVars, vrVars,
      procVars, svVars, pvVars>>

notSv ==
    <<schedVars, imgVars, drvVars, pollVars, vmVars, sdVars, vrVars,
      procVars, rcVars, pvVars>>

notPv ==
    <<schedVars, imgVars, drvVars, pollVars, vmVars, sdVars, vrVars,
      procVars, rcVars, svVars>>

RestPv ==
    /\ pv_params = <<>>
    /\ pv_registered = FALSE
    /\ pv_sessions0 = <<>>
    /\ pv_sessions = <<>>
    /\ pv_todo = <<>>
    /\ pv_ops = <<>>
    /\ pv_pc = None

RestSv ==
    /\ sv_params = <<>>
    /\ sv_exists = FALSE
    /\ sv_alive = FALSE
    /\ sv_needs_restart = FALSE
    /\ sv_start = FALSE
    /\ sv_ops = <<>>
    /\ sv_pc = None

RestRc ==
    /\ rc_params = <<>>
    /\ rc_params0 = <<>>
    /\ rc_env = <<>>
    /\ rc_env0 = <<>>
    /\ rc_keys = <<>>
    /\ rc_dropped = {}
    /\ rc_pc = None

RestSd ==
    /\ sd_watcher = None
    /\ sd_treshold = 0
    /\ sd_now = 0
    /\ sd_cache = <<>>
    /\ sd_counter = <<>>
    /\ sd_inactivity = <<>>
    /\ sd_errors = 0
    /\ sd_prev = <<>>
    /\ sd_temp = FALSE
    /\ sd_files = {}
    /\ sd_event = <<>>

RestPoll ==
    /\ poll_kind = None
    /\ poll_env = {}
    /\ termination_event = None
    /\ poller_thread = 0
    /\ pollers = <<>>
    /\ poll_pc = None
    /\ set_failed = FALSE

RestVm ==
    /\ vm_params = <<>>
    /\ vm_state = None
    /\ serial_console = FALSE
    /\ serial_output = <<>>
    /\ vm_pc = None
    /\ vm_raised = None
    /\ vm_log = <<>>

\* no exception has left the driver function
NoRaise == [at |-> None, kind |-> None, msgs |-> <<>>]

\* the variables of the driver, at rest
RestDrv ==
    /\ scenario = None
    /\ params = <<>>
    /\ env = <<>>
    /\ bridge = FALSE
    /\ applied = {}
    /\ grub = <<>>
    /\ kernel_modified = FALSE
    /\ kernel_cmdline = None
    /\ screendump_thread = None
    /\ vm_register_thread = None
    /\ drv_pc = None
    /\ err = <<>>
    /\ cleaned = {}
    /\ pp_exc = NoRaise
    /\ grub_prepatch = <<>>
    /\ patched = FALSE
    /\ intervened = FALSE
    /\ tests = 0

\* the variables of the image lifecycle actions, at rest
RestImg ==
    /\ img_func = None
    /\ img_params = <<>>
    /\ img_name = None
    /\ img_status = None
    /\ img_existed = FALSE
    /\ img_exists = FALSE
    /\ img_info = None
    /\ img_chk = None
    /\ img_ops = <<>>
    /\ img_pc = None

\* the variables of the scheduler, at rest
RestSched ==
    /\ images = <<>>
    /\ cpu_count = 1
    /\ pi_pc = None
    /\ no_threads = 0
    /\ threads = <<>>
    /\ exit_event = FALSE
    /\ scan = 1
    /\ serial_calls = <<>>
    /\ pi_raised = NoExc

(***************************************************************************)
(* Image processing scheduler                                              *)
(***************************************************************************)

\* Slice with an off-by-one start: images[i + 1::no_threads]
SliceOffByOne(seq, i, step) ==
    LET cnt == IF Len(seq) > i + 1
               THEN (Len(seq) - (i + 1) + step - 1) \div step ELSE 0
    IN  [k \in 1..cnt |-> seq[i + 1 + (k - 1) * step + 1]]

\* images[i::no_threads] for the 0-based start i
Slice(seq, i, step) ==
    LET cnt == IF Len(seq) > i THEN (Len(seq) - i + step - 1) \div step ELSE 0
    IN  [k \in 1..cnt |-> seq[i + (k - 1) * step + 1]]

\* no_threads = min(len(images) / 5, 2 * multiprocessing.cpu_count())
NoThreads(n, cpus) == Min(n \div ImagesPerThread, 2 * cpus)

\* UseParallel with the comparison len(images) >= 20
UseParallelInclusive(n) == n >= ParallelThreshold

\* len(images) > 20
UseParallel(n) == n > ParallelThreshold

\* SerialIteration without the test of the exit event
SerialIterationIgnoringEvent(imgs, pos, ok, event_set) ==
    IF ~ok THEN [pos |-> pos + 1, status |-> "raised"]
    ELSE IF pos + 1 = Len(imgs) THEN [pos |-> pos + 1, status |-> "returned"]
    ELSE [pos |-> pos + 1, status |-> "running"]

\* One iteration of the for loop of _process_images_serial over imgs, the
\* loop being about to take imgs[pos + 1]: the image function is invoked
\* (ok tells whether it returns or raises) and the exit event is consulted.
SerialIteration(imgs, pos, ok, event_set) ==
    IF ~ok THEN [pos |-> pos + 1, status |-> "raised"]
    ELSE IF event_set THEN [pos |-> pos + 1, status |-> "returned"]
    ELSE IF pos + 1 = Len(imgs) THEN [pos |-> pos + 1, status |-> "returned"]
    ELSE [pos |-> pos + 1, status |-> "running"]

\* threading.Thread.is_alive() of a started _CreateImages thread
IsAlive(t) == t.status \in {"running", "caught"}

\* FirstFailure scanning the threads from the last one
LastFailure(ts) ==
    LET failed == {i \in 1..Len(ts) : ts[i].exc_info # NoExc}
    IN  IF failed = {} THEN NoExc
        ELSE ts[CHOOSE i \in failed : \A j \in failed : i >= j].exc_info

\* for thread in threads: if thread.exc_info: raise ...
FirstFailure(ts) ==
    LET failed == {i \in 1..Len(ts) : ts[i].exc_info # NoExc}
    IN  IF failed = {} THEN NoExc
        ELSE ts[CHOOSE i \in failed : \A j \in failed : i <= j].exc_info

InitSched ==
    /\ \E n \in 0..MaxImages : images = [k \in 1..n |-> k]
    /\ cpu_count \in 1..MaxCpu
    /\ pi_pc = "call"
    /\ no_threads = 0
    /\ threads = <<>>
    /\ exit_event = FALSE
    /\ scan = 1
    /\ serial_calls = <<>>
    /\ pi_raised = NoExc
    /\ RestImg
    /\ RestDrv
    /\ RestPoll
    /\ RestVm
    /\ RestSd
    /\ RestVr
    /\ RestProc
    /\ RestRc
    /\ RestSv
    /\ RestPv

\* process_images: choose the serial or the parallel path
ProcessImages ==
    /\ pi_pc = "call"
    /\ IF UseParallel(Len(images))
       THEN /\ pi_pc' = "par_start"
            /\ no_threads' = NoThreads(Len(images), cpu_count)
       ELSE /\ pi_pc' = IF Len(images) = 0 THEN "done" ELSE "serial"
            /\ UNCHANGED no_threads
    /\ UNCHANGED <<images, cpu_count, threads, exit_event, scan,
                   serial_calls, pi_raised>>
    /\ UNCHANGED notSched

\* _process_images_serial on the calling thread (exit_event is None)
SerialStep ==
    /\ pi_pc = "serial"
    /\ \E ok \in BOOLEAN :
         LET r == SerialIteration(images, Len(serial_calls), ok, FALSE)
         IN  /\ serial_calls' = Append(serial_calls, images[r.pos])
             /\ pi_pc' = CASE r.status = "raised" -> "raised"
                           [] r.status = "returned" -> "done"
                           [] OTHER -> "serial"
             /\ pi_raised' = IF r.status = "raised" THEN images[r.pos]
                             ELSE pi_raised
    /\ UNCHANGED <<images, cpu_count, no_threads, threads, exit_event, scan>>
    /\ UNCHANGED notSched

\* _process_images_parallel: create and start the next worker
StartThread ==
    /\ pi_pc = "par_start"
    /\ Len(threads) < no_threads
    /\ LET imgs == Slice(images, Len(threads), no_threads)
       IN  threads' = Append(threads,
                [images |-> imgs, pos |-> 0, exc_info |-> NoExc,
                 status |-> IF Len(imgs) = 0 THEN "dead" ELSE "running"])
    /\ UNCHANGED <<images, cpu_count, pi_pc, no_threads, exit_event, scan,
                   serial_calls, pi_raised>>
    /\ UNCHANGED notSched

\* _process_images_parallel: all workers started, enter the wait loop
StartDone ==
    /\ pi_pc = "par_start"
    /\ Len(threads) = no_threads
    /\ pi_pc' = "wait"
    /\ scan' = 1
    /\ UNCHANGED <<images, cpu_count, no_threads, threads, exit_event,
                   serial_calls, pi_raised>>
    /\ UNCHANGED notSched

\* _process_images_parallel: the wait loop looks at one thread
WaitScan ==
    /\ pi_pc = "wait"
    /\ IF scan > Len(threads)
       THEN /\ pi_pc' = "check"
            /\ UNCHANGED scan
       ELSE /\ scan' = IF IsAlive(threads[scan]) THEN 1 ELSE scan + 1
            /\ UNCHANGED pi_pc
    /\ UNCHANGED <<images, cpu_count, no_threads, threads, exit_event,
                   serial_calls, pi_raised>>
    /\ UNCHANGED notSched

\* _process_images_parallel: raise the first captured failure, or return
CheckFailure ==
    /\ pi_pc = "check"
    /\ IF exit_event /\ FirstFailure(threads) # NoExc
       THEN /\ pi_raised' = FirstFailure(threads)
            /\ pi_pc' = "raised"
       ELSE /\ pi_pc' = "done"
            /\ UNCHANGED pi_raised
    /\ UNCHANGED <<images, cpu_count, no_threads, threads, exit_event, scan,
                   serial_calls>>
    /\ UNCHANGED notSched

\* _CreateImages.run: one image of the worker's partition
WorkerStep(i) ==
    /\ i \in 1..Len(threads)
    /\ threads[i].status = "running"
    /\ \E ok \in BOOLEAN :
         LET t == threads[i]
             r == SerialIteration(t.images, t.pos, ok, exit_event)
         IN  threads' = [threads EXCEPT ![i] =
                [t EXCEPT !.pos = r.pos,
                          !.exc_info = IF r.status = "raised"
                                       THEN t.images[r.pos] ELSE NoExc,
                          !.status = CASE r.status = "raised" -> "caught"
                                       [] r.status = "returned" -> "dead"
                                       [] OTHER -> "running"]]
    /\ UNCHANGED <<images, cpu_count, pi_pc, no_threads, exit_event, scan,
                   serial_calls, pi_raised>>
    /\ UNCHANGED notSched

\* _CreateImages.run: the except clause sets the exit event, the thread ends
WorkerSetEvent(i) ==
    /\ i \in 1..Len(threads)
    /\ threads[i].status = "caught"
    /\ exit_event' = TRUE
    /\ threads' = [threads EXCEPT ![i].status = "dead"]
    /\ UNCHANGED <<images, cpu_count, pi_pc, no_threads, scan,
                   serial_calls, pi_raised>>
    /\ UNCHANGED notSched

NextSched ==
    \/ ProcessImages
    \/ SerialStep
    \/ StartThread
    \/ StartDone
    \/ WaitScan
    \/ CheckFailure
    \/ \E i \in 1..Len(threads) : WorkerStep(i)
    \/ \E i \in 1..Len(threads) : WorkerSetEvent(i)

SpecSched == InitSched /\ [][NextSched]_vars

(***************************************************************************)
(* Properties of the image processing scheduler                            *)
(***************************************************************************)

\* C1: when a worker's image action raised, _process_images_parallel raises
\* only once every started worker thread has terminated, all no_threads
\* workers having been started, and the exception it raises is the one
\* captured by the failing worker with the lowest start index; it never
\* returns normally while some worker holds a captured exception.
C1_RaiseAfterWorkersFirstFailure ==
    Len(images) > ParallelThreshold =>
        /\ pi_pc = "raised" =>
              /\ Len(threads) = no_threads
              /\ \A i \in 1..Len(threads) : threads[i].status = "dead"
              /\ pi_raised # NoExc
              /\ \E i \in 1..Len(threads) :
                    /\ threads[i].exc_info = pi_raised
                    /\ \A j \in 1..(i - 1) : threads[j].exc_info = NoExc
        /\ pi_pc = "done" =>
              \A i \in 1..Len(threads) : threads[i].exc_info = NoExc

\* C1 witness: the scheduler has raised while two workers hold a captured
\* exception and the first worker holds none.
C1_Witness ==
    /\ pi_pc = "raised"
    /\ Len(images) > ParallelThreshold
    /\ threads[1].exc_info = NoExc
    /\ Cardinality({i \in 1..Len(threads) : threads[i].exc_info # NoExc}) >= 2

\* C2: for more than 20 images, from the moment the workers are all started
\* there are exactly min(N div 5, 2 x cpu_count) of them; when the scheduler
\* has started them, image number k of the list is in the partition of worker
\* ((k - 1) mod no_threads) + 1 and in no other (round robin: disjoint and
\* covering), and every partition lists its images in their original
\* relative order, none of them twice.
C2_RoundRobinPartition ==
    LET n == Len(images)
        expected == IF n \div 5 <= 2 * cpu_count THEN n \div 5
                    ELSE 2 * cpu_count
    IN  /\ (n > ParallelThreshold /\ pi_pc \in {"wait", "check", "raised", "done"})
            => Len(threads) = expected
        /\ (n > ParallelThreshold /\ pi_pc = "wait") =>
            /\ \A k \in 1..n :
                  \A i \in 1..Len(threads) :
                     (\E j \in 1..Len(threads[i].images) :
                         threads[i].images[j] = images[k])
                     <=> (i = ((k - 1) % expected) + 1)
            /\ \A i \in 1..Len(threads) :
                  \A j1, j2 \in 1..Len(threads[i].images) :
                     j1 < j2 => threads[i].images[j1] < threads[i].images[j2]

\* C2 witness: all workers are started and their number is the 2 x cpu_count
\* arm of the minimum.
C2_Witness ==
    /\ pi_pc = "wait"
    /\ Len(images) > ParallelThreshold
    /\ Len(threads) = 2 * cpu_count
    /\ 2 * cpu_count < Len(images) \div 5

\* C3: for at most 20 images no worker is ever started, the invocations made
\* on the calling thread are always a prefix of the declared list (declared
\* order, one invocation per image), and when process_images returns every
\* image has been invoked.
C3_SerialInOrder ==
    Len(images) <= ParallelThreshold =>
        /\ threads = <<>>
        /\ no_threads = 0
        /\ Len(serial_calls) <= Len(images)
        /\ \A k \in 1..Len(serial_calls) : serial_calls[k] = images[k]
        /\ pi_pc = "done" => serial_calls = images
        /\ pi_pc = "raised" => pi_raised = serial_calls[Len(serial_calls)]

\* C3 witness: a list of exactly 20 images has been processed to the end.
C3_Witness ==
    /\ pi_pc = "done"
    /\ Len(images) = ParallelThreshold
    /\ serial_calls = images

(***************************************************************************)
(* Configuration map                                                       *)
(***************************************************************************)

\* params.get(key, default): an absent key gives the default
Get(p, k, d) == IF k \in DOMAIN p THEN p[k] ELSE d

\* every dict over a subset of keys with values in vals
Dicts(keys, vals) == UNION {[S -> vals] : S \in SUBSET keys}

\* image_name in "<list>".split()
InList(x, seq) == \E k \in 1..Len(seq) : seq[k] = x

\* whether a sequence of operations contains op
Has(ops, op) == \E k \in 1..Len(ops) : ops[k] = op

(***************************************************************************)
(* Image lifecycle actions                                                 *)
(***************************************************************************)

\* the create decision taking create_image without looking at the file
NeedCreateIgnoringFile(p, exists) ==
    IF Get(p, "force_create_image", None) = "yes" THEN TRUE
    ELSE IF Get(p, "create_image", None) = "yes" THEN TRUE
    ELSE FALSE

\* preprocess_image: the create_image decision
NeedCreate(p, exists) ==
    IF Get(p, "force_create_image", None) = "yes" THEN TRUE
    ELSE IF Get(p, "create_image", None) = "yes" /\ ~exists THEN TRUE
    ELSE FALSE

\* the steps with the creation ahead of the snapshot
CreateThenBackup(backend, backup, create) == backend \o create \o backup

\* preprocess_image: the order of its steps: the backend preparation, the
\* backup_image_before_testing snapshot, then the removal and the creation
PreprocessSteps(backend, backup, create) == backend \o backup \o create

\* preprocess_image: the operations performed, in order, and the file's fate
PreprocessImageRun(p, exists, backend_ok) ==
    LET create_image == NeedCreate(p, exists)
        backend == IF backend_ok THEN <<"preprocess_image_backend">>
                   ELSE <<"preprocess_image_backend", "log_error">>
        backup == IF Get(p, "backup_image_before_testing", "no") = "yes"
                  THEN <<"backup">> ELSE <<>>
        create == IF create_image
                  THEN (IF exists THEN <<"file_remove">> ELSE <<>>) \o <<"create">>
                  ELSE <<>>
    IN  [ops |-> PreprocessSteps(backend, backup, create),
         exists |-> IF create_image THEN TRUE ELSE exists,
         result |-> "returned"]

\* the clone-set gate that lets every image through under clone_master=yes
CloneGateOpen(p, name) ==
    LET clone_master == Get(p, "clone_master", None)
    IN  IF clone_master = None THEN "do"
        ELSE IF clone_master = "yes"
             THEN IF "master_images_clone" \notin DOMAIN p THEN "AttributeError"
                  ELSE "do"
        ELSE "skip"

\* postprocess_image: the gate of check_image and of remove_image:
\* clone_master unset lets the operation through; "yes" lets it through for
\* an image of master_images_clone (and fails on None.split() when that key
\* is absent); any other value skips it
CloneGate(p, name) ==
    LET clone_master == Get(p, "clone_master", None)
    IN  IF clone_master = None THEN "do"
        ELSE IF clone_master = "yes"
             THEN IF "master_images_clone" \notin DOMAIN p THEN "AttributeError"
                  ELSE IF InList(name, p["master_images_clone"]) THEN "do"
                  ELSE "skip"
        ELSE "skip"

\* postprocess_image: whether the image is checked at all, after the
\* adjustments made for a running guest
CheckImageFlag(p, vm_process_status, info) ==
    LET flag == Get(p, "check_image", None) = "yes"
    IN  IF vm_process_status = "running" /\ flag
        THEN IF Get(p, "skip_image_check_during_running", None) = "yes"
             THEN FALSE
             ELSE IF info = "none" THEN FALSE
             ELSE IF info = "lazy" THEN FALSE
             ELSE TRUE
        ELSE flag

DowngradedWhateverFailed(p, exc) ==
    Get(p, "skip_cluster_leak_warn", None) = "yes"

\* postprocess_image: skip_cluster_leak_warn is yes and "Leaked clusters" is
\* in the message of the failure, which is then logged and swallowed
LeakDowngraded(p, exc) ==
    Get(p, "skip_cluster_leak_warn", None) = "yes" /\ exc = "leak"

\* postprocess_image: the operations performed, in order, the file's fate
\* and whether the call returns or raises.  info is what image.info() gives
\* ("none": no output, "lazy": lazy refcounts true, "plain"), chk what
\* image.check_image() does ("ok", "leak": raises with 'Leaked clusters',
\* "error": raises something else).
PostprocessImageRun(p, name, vm_process_status, exists, info, chk) ==
    LET flag0 == Get(p, "check_image", None) = "yes"
        info_ops == IF /\ vm_process_status = "running"
                       /\ flag0
                       /\ Get(p, "skip_image_check_during_running", None) # "yes"
                    THEN <<"info">> ELSE <<>>
        check_image_flag == CheckImageFlag(p, vm_process_status, info)
        gate == CloneGate(p, name)
        \* the try block
        exc == IF ~check_image_flag THEN "none"
               ELSE IF gate = "AttributeError" THEN "error"
               ELSE IF gate = "do" /\ chk # "ok" THEN chk
               ELSE "none"
        after_check == IF Get(p, "backup_image", "no") = "yes" THEN <<"backup">>
                       ELSE IF Get(p, "restore_image", "no") = "yes"
                            THEN <<"restore">>
                       ELSE <<>>
        try_ops == IF ~check_image_flag THEN <<>>
                   ELSE IF gate = "AttributeError" THEN <<>>
                   ELSE (IF gate = "do" THEN <<"check">> ELSE <<>>)
                        \o (IF exc = "none" THEN after_check ELSE <<>>)
        restored == check_image_flag /\ exc = "none" /\ after_check # <<>>
        \* the except clause
        exc_ops == IF exc = "none" THEN <<>>
                   ELSE (IF Get(p, "restore_image_on_check_error", "no") = "yes"
                         THEN <<"restore">> ELSE <<>>)
                        \o (IF /\ Get(p, "remove_image_on_check_error", "no") = "yes"
                               /\ InList(name, Get(p, "master_images_clone", <<>>))
                            THEN <<"remove">> ELSE <<>>)
        reraised == exc # "none" /\ ~LeakDowngraded(p, exc)
        \* after the check branch
        late_restore == IF ~restored
                           /\ Get(p, "restore_image_after_testing", "no") = "yes"
                        THEN <<"restore">> ELSE <<>>
        remove_req == Get(p, "remove_image", None) = "yes"
        remove_ops == IF remove_req /\ gate = "do" THEN <<"remove">> ELSE <<>>
        remove_raises == remove_req /\ gate = "AttributeError"
        ops == IF reraised THEN info_ops \o try_ops \o exc_ops
               ELSE info_ops \o try_ops \o exc_ops \o late_restore \o remove_ops
    IN  [ops |-> ops,
         exists |-> IF Has(ops, "remove") THEN FALSE ELSE exists,
         result |-> IF reraised \/ remove_raises THEN "raised" ELSE "returned"]

ImageName == "a"

\* the clone sets tried: one with the image, one without it
CloneLists == {<<"b", "a">>, <<"b">>}

PreKeys == {"force_create_image", "create_image"}

PostFlags == {"check_image", "skip_image_check_during_running",
              "backup_image", "restore_image", "restore_image_on_check_error",
              "remove_image_on_check_error", "skip_cluster_leak_warn",
              "restore_image_after_testing", "remove_image"}

PreParams ==
    {a @@ b : a \in Dicts(PreKeys, {"yes", "no"}),
              b \in Dicts({"backup_image_before_testing"}, {"yes"})}

PostParams ==
    {a @@ b @@ c : a \in Dicts(PostFlags, {"yes"}),
                   b \in Dicts({"clone_master"}, {"yes", "no"}),
                   c \in Dicts({"master_images_clone"}, CloneLists)}

InitImg ==
    /\ img_func \in {"pre", "post"}
    /\ img_params \in IF img_func = "pre" THEN PreParams ELSE PostParams
    /\ img_name = ImageName
    /\ img_status \in IF img_func = "pre" THEN {None}
                      ELSE {None, "running", "dead"}
    /\ img_existed \in BOOLEAN
    /\ img_exists = img_existed
    /\ img_info = None
    /\ img_chk = None
    /\ img_ops = <<>>
    /\ img_pc = "call"
    /\ RestSched
    /\ RestDrv
    /\ RestPoll
    /\ RestVm
    /\ RestSd
    /\ RestVr
    /\ RestProc
    /\ RestRc
    /\ RestSv
    /\ RestPv

\* preprocess_image(test, params, image_name, vm_process_status)
PreprocessImage ==
    /\ img_pc = "call"
    /\ img_func = "pre"
    /\ \E backend_ok \in BOOLEAN :
         LET r == PreprocessImageRun(img_params, img_exists, backend_ok)
         IN  /\ img_ops' = r.ops
             /\ img_exists' = r.exists
             /\ img_pc' = r.result
    /\ UNCHANGED <<img_func, img_params, img_name, img_status, img_existed,
                   img_info, img_chk>>
    /\ UNCHANGED notImg

\* postprocess_image(test, params, image_name, vm_process_status)
PostprocessImage ==
    /\ img_pc = "call"
    /\ img_func = "post"
    /\ \E info \in {"none", "lazy", "plain"}, chk \in {"ok", "leak", "error"} :
         LET r == PostprocessImageRun(img_params, img_name, img_status,
                                      img_exists, info, chk)
         IN  /\ img_ops' = r.ops
             /\ img_exists' = r.exists
             /\ img_pc' = r.result
             /\ img_info' = IF Has(r.ops, "info") THEN info ELSE None
             /\ img_chk' = IF Has(r.ops, "check") THEN chk ELSE None
    /\ UNCHANGED <<img_func, img_params, img_name, img_status, img_existed>>
    /\ UNCHANGED notImg

NextImg ==
    \/ PreprocessImage
    \/ PostprocessImage

SpecImg == InitImg /\ [][NextImg]_vars

(***************************************************************************)
(* Orchestration driver: configurations                                    *)
(***************************************************************************)

\* at most this many optional keys are present in a test's params
MaxParams == 3

\* the boot configuration has at most this many lines
MaxGrubLines == 3

\* the runner runs at most this many tests in a job of kernel tests
MaxTests == 2

\* at most this many of the optional keys of preprocess_vm are in a
\* configuration
MaxVmParams == 3

\* "<string>".split() and params.objects(key) for the strings that occur
SplitTable ==
    ("" :> <<>>) @@ (" pci=nomsi" :> <<"pci=nomsi">>)
    @@ ("quiet pci=nomsi" :> <<"quiet", "pci=nomsi">>)
    @@ ("pci=nomsi pci=nomsi" :> <<"pci=nomsi", "pci=nomsi">>)
    @@ ("a b c" :> <<"a", "b", "c">>) @@ ("b c" :> <<"b", "c">>)
    @@ ("vm1 vm2" :> <<"vm1", "vm2">>) @@ ("vm2 vm1" :> <<"vm2", "vm1">>)

Split(str) == IF str \in DOMAIN SplitTable THEN SplitTable[str] ELSE <<str>>

\* params[key] = value
Put(p, k, v) == (k :> v) @@ p

\* params.object_params(obj).get(key, default)
ObjGet(p, obj, k, d) ==
    IF (k \o "_" \o obj) \in DOMAIN p THEN p[k \o "_" \o obj] ELSE Get(p, k, d)

\* every dict that gives at most n of the keys of opts one of its values
BoundedDicts(opts, n) ==
    UNION {{f \in [S -> UNION {opts[k] : k \in S}] : \A k \in S : f[k] \in opts[k]}
           : S \in {T \in SUBSET DOMAIN opts : Cardinality(T) <= n}}

\* keys present in every test configuration
BaseParams == [vms |-> "vm1", images |-> "a", main_vm |-> "vm1"]

\* optional keys of the tests that exercise the postprocess cleanups
CleanupOptions ==
    [setup_hugepages |-> {"yes"}, setup_thp |-> {"yes"}, setup_ksm |-> {"yes"},
     setup_egd |-> {"yes"}, kill_vm |-> {"yes"},
     vm_type |-> {"qemu", "libvirt"}, setup_libvirt_polkit |-> {"yes"},
     post_command |-> {"cmd"}, storage_type |-> {"iscsi", "lvm", "nfs"},
     netdst |-> {"private"}, nics |-> {"nic1"}, netdst_nic1 |-> {"private"},
     kill_unresponsive_vms |-> {"yes"}, remove_image |-> {"yes"},
     verify_host_dmesg |-> {"no"}, take_regular_screendumps |-> {"yes"},
     store_vm_register |-> {"yes"}, not_preprocess |-> {"yes"}]

\* optional keys of the tests that exercise the kernel command line workflow
KernelOptions ==
    [kernel_extra_params_add |-> {"pci=nomsi"},
     kernel_extra_params_remove |-> {"quiet"},
     ker_remove_similar |-> {"yes"}, restore_kernel_cmd |-> {"no"},
     setup_hugepages |-> {"yes"}, post_command |-> {"cmd"}]

\* the number of tests of a job: the cleanup jobs are one test long
JobLength(sc) == IF sc = "kernel" THEN MaxTests ELSE 1

ParamSpace(sc) ==
    {o @@ BaseParams :
        o \in BoundedDicts(IF sc = "kernel" THEN KernelOptions
                           ELSE CleanupOptions, MaxParams)}

\* boot configurations a guest image starts with
InitGrubs ==
    {<< <<"menuentry">>, <<"linux16", "vmlinuz-3", "ro", "quiet">> >>,
     << <<"linux16", "vmlinuz-3", "ro", "pci=noacpi">>,
        <<"linux16", "vmlinuz-2", "ro">> >>}

\* the entry a kernel update of the guest puts first
NewKernelLine == <<"linux16", "vmlinuz-4", "ro">>

VmStatus == {"running", "paused", "dead"}

(***************************************************************************)
(* Guest filesystem editor and kernel command line helpers                 *)
(***************************************************************************)

\* a line matched by kernel_cfg_pos_reg, r".*vmlinuz-\d+.*"
IsKernelLine(line) ==
    \E k \in 1..Len(line) : line[k] \in {"vmlinuz-2", "vmlinuz-3", "vmlinuz-4"}

\* re.findall(kernel_cfg_pos_reg, content): positions of the matching lines
KernelLines(file) == {i \in 1..Len(file) : IsKernelLine(file[i])}

\* re.findall(...)[0]: the first matching line
FirstKernelLine(file) ==
    file[CHOOSE i \in KernelLines(file) : \A j \in KernelLines(file) : i <= j]

\* kernel_extra_param.split("=")[0]
ParamTag(tok) ==
    CASE tok = "pci=nomsi" -> "pci"
      [] tok = "pci=noacpi" -> "pci"
      [] OTHER -> tok

RECURSIVE Without(_, _)
\* the tokens of line that do not satisfy the test drop
Without(line, drop) ==
    IF line = <<>> THEN <<>>
    ELSE IF Head(line) \in drop THEN Without(Tail(line), drop)
    ELSE <<Head(line)>> \o Without(Tail(line), drop)

\* utils_misc.rm_ker_cmd: the line without the parameter
RmKerCmd(line, param) == Without(line, {param})

\* utils_misc.add_ker_cmd: the line with the parameter added, after removing
\* the parameters of the same tag when remove_similar is asked
AddKerCmd(line, param, remove_similar) ==
    IF \E k \in 1..Len(line) : line[k] = param THEN line
    ELSE LET similar == {line[k] : k \in {j \in 1..Len(line) :
                            /\ ParamTag(param) # param
                            /\ ParamTag(line[j]) = ParamTag(param)}}
             kept == IF remove_similar THEN Without(line, similar) ELSE line
         IN  Append(kept, param)

\* GuestFSModiDisk.replace_image_file_content: the located content find is
\* overwritten with rep
ReplaceContent(file, find, rep) ==
    LET found == {i \in 1..Len(file) : file[i] = find}
    IN  [i \in 1..Len(file) |->
            IF i \in found /\ (\A j \in found : i <= j) THEN rep ELSE file[i]]

(***************************************************************************)
(* Orchestration driver: preprocess                                        *)
(***************************************************************************)

InitDrv(sc, grubs) ==
    /\ scenario = sc
    /\ params = <<>>
    /\ env = <<>>
    /\ bridge = FALSE
    /\ applied = {}
    /\ grub \in grubs
    /\ kernel_modified = FALSE
    /\ kernel_cmdline = None
    /\ screendump_thread = None
    /\ vm_register_thread = None
    /\ drv_pc = "idle"
    /\ err = <<>>
    /\ cleaned = {}
    /\ pp_exc = NoRaise
    /\ grub_prepatch = <<>>
    /\ patched = FALSE
    /\ intervened = FALSE
    /\ tests = 0
    /\ RestSched
    /\ RestImg
    /\ RestPoll
    /\ RestVm
    /\ RestSd
    /\ RestVr
    /\ RestProc
    /\ RestRc
    /\ RestSv
    /\ RestPv

\* the test runner calls preprocess(test, params, env) for the next test
Preprocess ==
    /\ drv_pc = "idle"
    /\ tests < JobLength(scenario)
    /\ tests' = tests + 1
    /\ params' \in ParamSpace(scenario)
    /\ drv_pc' = "pre_bridge"
    /\ UNCHANGED <<scenario, env, bridge, applied, grub, kernel_modified,
                   kernel_cmdline, screendump_thread, vm_register_thread,
                   err, cleaned, pp_exc, grub_prepatch, patched, intervened>>
    /\ UNCHANGED notDrv

RECURSIVE BridgeParams(_, _)
\* preprocess: the netdst_<nic> keys rewritten by the private bridge loop
BridgeParams(p, nics) ==
    IF nics = <<>> THEN p
    ELSE LET nic == Head(nics)
             q == IF ObjGet(p, nic, "netdst", None) = "private"
                  THEN Put(p, "netdst_" \o nic,
                           ObjGet(p, nic, "priv_brname", "atbr0"))
                  ELSE p
         IN  BridgeParams(q, Tail(nics))

\* preprocess: whether some NIC asks for the private bridge
SetupPb(p) ==
    \E k \in 1..Len(Split(Get(p, "nics", ""))) :
        ObjGet(p, Split(Get(p, "nics", ""))[k], "netdst", None) = "private"

\* preprocess: private bridge setup
PreBridge ==
    /\ drv_pc = "pre_bridge"
    /\ params' = BridgeParams(params, Split(Get(params, "nics", "")))
    /\ bridge' = IF SetupPb(params) THEN TRUE ELSE bridge
    /\ drv_pc' = "pre_tuning"
    /\ UNCHANGED <<scenario, env, applied, grub, kernel_modified,
                   kernel_cmdline, screendump_thread, vm_register_thread,
                   err, cleaned, pp_exc, grub_prepatch, patched, intervened>>
    /\ UNCHANGED <<tests, notDrv>>

\* preprocess: the host tuning setups requested by params
TuningRequested(p) ==
    {t \in {"hp", "thp", "ksm", "egd", "polkit"} :
        CASE t = "hp" -> Get(p, "setup_hugepages", None) = "yes"
          [] t = "thp" -> Get(p, "setup_thp", None) = "yes"
          [] t = "ksm" -> Get(p, "setup_ksm", None) = "yes"
          [] t = "egd" -> Get(p, "setup_egd", None) = "yes"
          [] t = "polkit" -> /\ Get(p, "vm_type", None) = "libvirt"
                             /\ Get(p, "setup_libvirt_polkit", None) = "yes"}

\* preprocess: huge pages, THP, KSM, entropy daemon and polkit setup
PreTuning ==
    /\ drv_pc = "pre_tuning"
    /\ applied' = TuningRequested(params)
    /\ drv_pc' = "pre_kernel"
    /\ UNCHANGED <<scenario, params, env, bridge, grub, kernel_modified,
                   kernel_cmdline, screendump_thread, vm_register_thread,
                   err, cleaned, pp_exc, grub_prepatch, patched, intervened>>
    /\ UNCHANGED <<tests, notDrv>>

\* preprocess: kernel_extra_params_add after the disable_pci_msi adjustment
KernelAdd(p) ==
    LET add == Get(p, "kernel_extra_params_add", "")
    IN  IF Get(p, "disable_pci_msi", None) # None
           /\ Get(p, "disable-pci_msi", None) = "yes"
        THEN IF \E k \in 1..Len(Split(add)) : ParamTag(Split(add)[k]) = "pci"
             THEN add
             ELSE add \o " pci=nomsi"
        ELSE add

\* preprocess: kernel_extra_params_remove after the disable_pci_msi adjustment
KernelRemove(p) ==
    LET rem == Get(p, "kernel_extra_params_remove", "")
    IN  IF Get(p, "disable_pci_msi", None) # None
           /\ Get(p, "disable-pci_msi", None) # "yes"
        THEN rem \o " pci=nomsi"
        ELSE rem

RECURSIVE AddAll(_, _, _)
\* preprocess: apply every addition to the line
AddAll(line, toks, p) ==
    IF toks = <<>> THEN line
    ELSE AddAll(AddKerCmd(line, Head(toks),
                    ObjGet(p, ParamTag(Head(toks)), "ker_remove_similar", "no") = "yes"),
                Tail(toks), p)

RECURSIVE RemoveAll(_, _)
\* preprocess: apply every removal to the line
RemoveAll(line, toks) ==
    IF toks = <<>> THEN line
    ELSE RemoveAll(RmKerCmd(line, Head(toks)), Tail(toks))

\* preprocess: the target kernel line, kernel_config_set
KernelConfigSet(line, p) ==
    RemoveAll(AddAll(line, Split(KernelAdd(p)), p), Split(KernelRemove(p)))

\* preprocess: the keys written at the end of the kernel command line step
KernelCheckParams(p) ==
    LET p0 == IF Get(p, "disable_pci_msi", None) # None
                 /\ Get(p, "disable-pci_msi", None) = "yes"
              THEN Put(p, "ker_remove_similar_pci", "yes") ELSE p
        p1 == Put(p0, "check_kernel_cmd_line_from_serial", "yes")
        p2 == IF KernelAdd(p) # ""
              THEN Put(p1, "kernel_options_exist", KernelAdd(p)) ELSE p1
    IN  IF KernelRemove(p) # ""
        THEN Put(p2, "kernel_options_not_exist", KernelRemove(p)) ELSE p2

\* the saved command line taken from the target line
SavedCmdlineTarget(kernel_config, kernel_config_set) == kernel_config_set

\* preprocess: kernel_cmdline = kernel_config, the line as it was read
SavedCmdline(kernel_config, kernel_config_set) == kernel_config

KernelAlwaysModified(kernel_config_set, kernel_cmdline_read) == TRUE

\* preprocess: kernel_need_modify, the target line differs from the line
\* that was read
KernelNeedModify(kernel_config_set, kernel_cmdline_read) ==
    kernel_config_set # kernel_cmdline_read

\* preprocess: the kernel command line patch workflow
PreKernel ==
    /\ drv_pc = "pre_kernel"
    /\ IF KernelAdd(params) # "" \/ KernelRemove(params) # ""
       THEN IF KernelLines(grub) = {}
            THEN /\ pp_exc' = [at |-> "pre_kernel", kind |-> "TestError",
                             msgs |-> <<>>]
                 /\ drv_pc' = "test"
                 /\ UNCHANGED <<params, env, grub, kernel_modified,
                                kernel_cmdline, grub_prepatch, patched>>
            ELSE LET kernel_config == FirstKernelLine(grub)
                     kernel_config_set == KernelConfigSet(kernel_config, params)
                     kernel_need_modify ==
                         KernelNeedModify(kernel_config_set, kernel_config)
                 IN  /\ kernel_cmdline' = SavedCmdline(kernel_config,
                                                        kernel_config_set)
                     /\ IF kernel_need_modify
                        THEN \/ /\ env' = <<>>
                                /\ grub' = ReplaceContent(grub, kernel_config,
                                                          kernel_config_set)
                                /\ kernel_modified' = TRUE
                                /\ grub_prepatch' = grub
                                /\ patched' = TRUE
                                /\ params' = KernelCheckParams(params)
                                /\ drv_pc' = "pre_dispatch"
                                /\ UNCHANGED pp_exc
                             \* vm.destroy() of some VM raises: the VMs
                             \* before it are gone, nothing is written
                             \/ /\ env # <<>>
                                /\ \E done \in SUBSET DOMAIN env :
                                      /\ done # DOMAIN env
                                      /\ env' = [v \in DOMAIN env \ done
                                                    |-> env[v]]
                                /\ pp_exc' = [at |-> "pre_kernel",
                                              kind |-> "VMDestroyError",
                                              msgs |-> <<>>]
                                /\ drv_pc' = "test"
                                /\ UNCHANGED <<params, grub, kernel_modified,
                                               grub_prepatch, patched>>
                        ELSE /\ params' = KernelCheckParams(params)
                             /\ drv_pc' = "pre_dispatch"
                             /\ UNCHANGED <<env, grub, kernel_modified,
                                            grub_prepatch, patched, pp_exc>>
       ELSE /\ drv_pc' = "pre_dispatch"
            /\ UNCHANGED <<params, env, grub, kernel_modified, kernel_cmdline,
                           grub_prepatch, patched, pp_exc>>
    /\ UNCHANGED <<scenario, bridge, applied, screendump_thread,
                   vm_register_thread, err, cleaned, intervened>>
    /\ UNCHANGED <<tests, notDrv>>

\* preprocess: process(test, params, env, preprocess_image, preprocess_vm)
\* leaves every requested VM registered, in some status
PreDispatch ==
    /\ drv_pc = "pre_dispatch"
    /\ IF Get(params, "not_preprocess", "no") = "no"
       THEN LET vms == {Split(Get(params, "vms", ""))[k] :
                            k \in 1..Len(Split(Get(params, "vms", "")))}
            IN  \E st \in [vms -> VmStatus] : env' = st @@ env
       ELSE UNCHANGED env
    /\ drv_pc' = "pre_threads"
    /\ UNCHANGED <<scenario, params, bridge, applied, grub, kernel_modified,
                   kernel_cmdline, screendump_thread, vm_register_thread,
                   err, cleaned, pp_exc, grub_prepatch, patched, intervened>>
    /\ UNCHANGED <<tests, notDrv>>

\* preprocess: start the screendump and the register poller, return params
PreThreads ==
    /\ drv_pc = "pre_threads"
    /\ screendump_thread' =
          IF Get(params, "take_regular_screendumps", None) = "yes"
          THEN "ScreenDump" ELSE screendump_thread
    /\ vm_register_thread' =
          IF /\ Get(params, "store_vm_register", None) = "yes"
             /\ Get(params, "vm_type", None) = "qemu"
          THEN "VmRegister" ELSE vm_register_thread
    /\ drv_pc' = "test"
    /\ UNCHANGED <<scenario, params, env, bridge, applied, grub,
                   kernel_modified, kernel_cmdline, err, cleaned, pp_exc,
                   grub_prepatch, patched, intervened>>
    /\ UNCHANGED <<tests, notDrv>>

\* during the test the guest installs a kernel: a new first boot entry
TestInstallsKernel ==
    /\ drv_pc = "test"
    /\ ~intervened
    /\ kernel_modified
    /\ pp_exc = NoRaise
    /\ Len(grub) < MaxGrubLines
    /\ grub' = <<NewKernelLine>> \o grub
    /\ intervened' = TRUE
    /\ UNCHANGED <<scenario, params, env, bridge, applied, kernel_modified,
                   kernel_cmdline, screendump_thread, vm_register_thread,
                   drv_pc, err, cleaned, pp_exc, grub_prepatch, patched>>
    /\ UNCHANGED <<tests, notDrv>>

\* during the test the guest loses its kernel entries
TestRemovesKernel ==
    /\ drv_pc = "test"
    /\ ~intervened
    /\ kernel_modified
    /\ pp_exc = NoRaise
    /\ KernelLines(grub) # {}
    /\ grub' = << <<"menuentry">> >>
    /\ intervened' = TRUE
    /\ UNCHANGED <<scenario, params, env, bridge, applied, kernel_modified,
                   kernel_cmdline, screendump_thread, vm_register_thread,
                   drv_pc, err, cleaned, pp_exc, grub_prepatch, patched>>
    /\ UNCHANGED <<tests, notDrv>>

(***************************************************************************)
(* Orchestration driver: postprocess                                       *)
(***************************************************************************)

\* the names in params.objects(key)
Objects(p, k) == {Split(Get(p, k, ""))[i] : i \in 1..Len(Split(Get(p, k, "")))}

\* vm.destroy() on every VM of the set
Destroyed(e, vms) == [v \in DOMAIN e |-> IF v \in vms THEN "dead" ELSE e[v]]

\* an exception leaves postprocess at the step
Raise(step, kind, msgs) == [at |-> step, kind |-> kind, msgs |-> msgs]

\* the test ended: the runner calls postprocess(test, params, env)
Postprocess ==
    /\ drv_pc = "test"
    /\ drv_pc' = "dispatch"
    /\ pp_exc' = NoRaise
    /\ err' = <<>>
    /\ UNCHANGED <<scenario, params, env, bridge, applied, grub,
                   kernel_modified, kernel_cmdline, screendump_thread,
                   vm_register_thread, cleaned, grub_prepatch, patched,
                   intervened>>
    /\ UNCHANGED <<tests, notDrv>>

\* postprocess: process(..., postprocess_image, postprocess_vm, vm_first=True)
\* inside try/except: postprocess_vm destroys the VMs whose kill_vm is yes
PostDispatch ==
    /\ drv_pc = "dispatch"
    /\ LET killed == {v \in DOMAIN env \cap Objects(params, "vms") :
                         ObjGet(params, v, "kill_vm", None) = "yes"}
       IN  \E ok \in BOOLEAN :
              IF ok
              THEN /\ env' = Destroyed(env, killed)
                   /\ UNCHANGED err
              ELSE /\ \E done \in SUBSET killed : env' = Destroyed(env, done)
                   /\ err' = Append(err, "Postprocess")
    /\ cleaned' = cleaned \cup {"dispatch"}
    /\ drv_pc' = "screendump_join"
    /\ UNCHANGED <<scenario, params, bridge, applied, grub, kernel_modified,
                   kernel_cmdline, screendump_thread, vm_register_thread,
                   pp_exc, grub_prepatch, patched, intervened>>
    /\ UNCHANGED <<tests, notDrv>>

PostScreendumpJoinSkipped ==
    /\ drv_pc = "screendump_join"
    /\ drv_pc' = "harvest"
    /\ UNCHANGED <<scenario, params, env, bridge, applied, grub,
                   kernel_modified, kernel_cmdline, screendump_thread,
                   vm_register_thread, err, cleaned, pp_exc, grub_prepatch,
                   patched, intervened>>
    /\ UNCHANGED <<tests, notDrv>>

\* postprocess: signal and join the screendump thread
PostScreendumpJoin ==
    /\ drv_pc = "screendump_join"
    /\ IF screendump_thread # None
       THEN /\ screendump_thread' = None
            /\ cleaned' = cleaned \cup {"screendump_join"}
       ELSE UNCHANGED <<screendump_thread, cleaned>>
    /\ drv_pc' = "harvest"
    /\ UNCHANGED <<scenario, params, env, bridge, applied, grub,
                   kernel_modified, kernel_cmdline, vm_register_thread, err,
                   pp_exc, grub_prepatch, patched, intervened>>
    /\ UNCHANGED <<tests, notDrv>>

\* postprocess: video encoding (a failure is only logged), PPM files,
\* screendump directories and video files
PostHarvest ==
    /\ drv_pc = "harvest"
    /\ cleaned' = cleaned \cup {"harvest"}
    /\ drv_pc' = "register_join"
    /\ UNCHANGED <<scenario, params, env, bridge, applied, grub,
                   kernel_modified, kernel_cmdline, screendump_thread,
                   vm_register_thread, err, pp_exc, grub_prepatch, patched,
                   intervened>>
    /\ UNCHANGED <<tests, notDrv>>

\* postprocess: signal and join the register thread
PostRegisterJoin ==
    /\ drv_pc = "register_join"
    /\ IF vm_register_thread # None
       THEN /\ vm_register_thread' = None
            /\ cleaned' = cleaned \cup {"register_join"}
       ELSE UNCHANGED <<vm_register_thread, cleaned>>
    /\ drv_pc' = "kill_unresponsive"
    /\ UNCHANGED <<scenario, params, env, bridge, applied, grub,
                   kernel_modified, kernel_cmdline, screendump_thread, err,
                   pp_exc, grub_prepatch, patched, intervened>>
    /\ UNCHANGED <<tests, notDrv>>

\* postprocess: kill all unresponsive VMs; the login failure is caught, a
\* failure of vm.destroy(gracefully=False) is not
PostKillUnresponsive ==
    /\ drv_pc = "kill_unresponsive"
    /\ IF Get(params, "kill_unresponsive_vms", None) = "yes"
       THEN \E unresponsive \in SUBSET {v \in DOMAIN env : env[v] = "running"} :
              \/ /\ env' = Destroyed(env, unresponsive)
                 /\ cleaned' = cleaned \cup {"kill_unresponsive"}
                 /\ drv_pc' = "kill_deleted"
                 /\ UNCHANGED pp_exc
              \/ /\ unresponsive # {}
                 /\ \E done \in SUBSET unresponsive :
                       /\ done # unresponsive
                       /\ env' = Destroyed(env, done)
                 /\ cleaned' = cleaned \cup {"kill_unresponsive"}
                 /\ pp_exc' = Raise("kill_unresponsive", "VMDestroyError", <<>>)
                 /\ drv_pc' = "post_raised"
       ELSE /\ drv_pc' = "kill_deleted"
            /\ UNCHANGED <<env, cleaned, pp_exc>>
    /\ UNCHANGED <<scenario, params, bridge, applied, grub, kernel_modified,
                   kernel_cmdline, screendump_thread, vm_register_thread,
                   err, grub_prepatch, patched, intervened>>
    /\ UNCHANGED <<tests, notDrv>>

NoDeletedDiskVms(p, e) == {}

\* postprocess: the VMs one of whose images is marked remove_image=yes
DeletedDiskVms(p, e) ==
    {v \in DOMAIN e :
        \E image \in Objects([images |-> ObjGet(p, v, "images", "")], "images") :
            ObjGet(p, image, "remove_image", None) = "yes"}

\* postprocess: kill VMs with deleted disks; vm.destroy() is not guarded
PostKillDeleted ==
    /\ drv_pc = "kill_deleted"
    /\ LET todo == {v \in DeletedDiskVms(params, env) : env[v] # "dead"}
       IN  \/ /\ env' = Destroyed(env, todo)
              /\ drv_pc' = "stop_tcpdump"
              /\ UNCHANGED pp_exc
           \/ /\ todo # {}
              /\ \E done \in SUBSET todo :
                    /\ done # todo
                    /\ env' = Destroyed(env, done)
              /\ pp_exc' = Raise("kill_deleted", "VMDestroyError", <<>>)
              /\ drv_pc' = "post_raised"
    /\ cleaned' = cleaned \cup {"kill_deleted"}
    /\ UNCHANGED <<scenario, params, bridge, applied, grub, kernel_modified,
                   kernel_cmdline, screendump_thread, vm_register_thread,
                   err, grub_prepatch, patched, intervened>>
    /\ UNCHANGED <<tests, notDrv>>

\* postprocess: env.stop_tcpdump() and aexpect.kill_tail_threads()
PostStopTcpdump ==
    /\ drv_pc = "stop_tcpdump"
    /\ cleaned' = cleaned \cup {"stop_tcpdump"}
    /\ drv_pc' = "close_monitors"
    /\ UNCHANGED <<scenario, params, env, bridge, applied, grub,
                   kernel_modified, kernel_cmdline, screendump_thread,
                   vm_register_thread, err, pp_exc, grub_prepatch, patched,
                   intervened>>
    /\ UNCHANGED <<tests, notDrv>>

\* postprocess: close the monitors (failures ignored) and the serial console
\* of every living VM
PostCloseMonitors ==
    /\ drv_pc = "close_monitors"
    /\ cleaned' = cleaned \cup {"close_monitors"}
    /\ drv_pc' = "hp"
    /\ UNCHANGED <<scenario, params, env, bridge, applied, grub,
                   kernel_modified, kernel_cmdline, screendump_thread,
                   vm_register_thread, err, pp_exc, grub_prepatch, patched,
                   intervened>>
    /\ UNCHANGED <<tests, notDrv>>

\* a wrapped cleanup whose failure makes postprocess go straight to its end
BestEffortShortCircuit(step, next, applies, label) ==
    /\ drv_pc = step
    /\ IF applies
       THEN /\ cleaned' = cleaned \cup {step}
            /\ \E ok \in BOOLEAN :
                  /\ err' = IF ok THEN err ELSE Append(err, label)
                  /\ drv_pc' = IF ok THEN next ELSE "final"
       ELSE /\ drv_pc' = next
            /\ UNCHANGED <<cleaned, err>>

\* a cleanup wrapped in try/except Exception: when it applies it is invoked,
\* and a failure is appended to err; the next step follows in any case
BestEffort(step, next, applies, label) ==
    /\ drv_pc = step
    /\ IF applies
       THEN /\ cleaned' = cleaned \cup {step}
            /\ \E ok \in BOOLEAN :
                  err' = IF ok THEN err ELSE Append(err, label)
       ELSE UNCHANGED <<cleaned, err>>
    /\ drv_pc' = next

\* postprocess: huge pages cleanup
PostHugePages ==
    /\ BestEffort("hp", "thp",
                  Get(params, "setup_hugepages", None) = "yes",
                  "HP cleanup")
    /\ UNCHANGED <<scenario, params, env, bridge, applied, grub,
                   kernel_modified, kernel_cmdline, screendump_thread,
                   vm_register_thread, pp_exc, grub_prepatch, patched,
                   intervened>>
    /\ UNCHANGED <<tests, notDrv>>

\* postprocess: transparent huge pages cleanup
PostThp ==
    /\ BestEffort("thp", "ksm",
                  Get(params, "setup_thp", None) = "yes",
                  "THP cleanup")
    /\ UNCHANGED <<scenario, params, env, bridge, applied, grub,
                   kernel_modified, kernel_cmdline, screendump_thread,
                   vm_register_thread, pp_exc, grub_prepatch, patched,
                   intervened>>
    /\ UNCHANGED <<tests, notDrv>>

\* postprocess: KSM cleanup
PostKsm ==
    /\ BestEffort("ksm", "egd",
                  Get(params, "setup_ksm", None) = "yes",
                  "KSM cleanup")
    /\ UNCHANGED <<scenario, params, env, bridge, applied, grub,
                   kernel_modified, kernel_cmdline, screendump_thread,
                   vm_register_thread, pp_exc, grub_prepatch, patched,
                   intervened>>
    /\ UNCHANGED <<tests, notDrv>>

\* the entropy daemon cleanup run whenever its setup was requested
PostEgdWithoutKillVm ==
    /\ BestEffort("egd", "polkit",
                  Get(params, "setup_egd", None) = "yes",
                  "egd.pl cleanup")
    /\ UNCHANGED <<scenario, params, env, bridge, applied, grub,
                   kernel_modified, kernel_cmdline, screendump_thread,
                   vm_register_thread, pp_exc, grub_prepatch, patched,
                   intervened>>
    /\ UNCHANGED <<tests, notDrv>>

\* postprocess: entropy daemon cleanup
PostEgd ==
    /\ BestEffort("egd", "polkit",
                  /\ Get(params, "setup_egd", None) = "yes"
                  /\ Get(params, "kill_vm", None) = "yes",
                  "egd.pl cleanup")
    /\ UNCHANGED <<scenario, params, env, bridge, applied, grub,
                   kernel_modified, kernel_cmdline, screendump_thread,
                   vm_register_thread, pp_exc, grub_prepatch, patched,
                   intervened>>
    /\ UNCHANGED <<tests, notDrv>>

\* postprocess: polkit cleanup
PostPolkit ==
    /\ BestEffort("polkit", "kernel",
                  /\ Get(params, "vm_type", None) = "libvirt"
                  /\ Get(params, "setup_libvirt_polkit", None) = "yes",
                  "Polkit cleanup")
    /\ UNCHANGED <<scenario, params, env, bridge, applied, grub,
                   kernel_modified, kernel_cmdline, screendump_thread,
                   vm_register_thread, pp_exc, grub_prepatch, patched,
                   intervened>>
    /\ UNCHANGED <<tests, notDrv>>

\* postprocess: the post command
PostCommand ==
    /\ BestEffort("post_command", "iscsi",
                  Get(params, "post_command", None) # None,
                  "Postprocess command")
    /\ UNCHANGED <<scenario, params, env, bridge, applied, grub,
                   kernel_modified, kernel_cmdline, screendump_thread,
                   vm_register_thread, pp_exc, grub_prepatch, patched,
                   intervened>>
    /\ UNCHANGED <<tests, notDrv>>

\* postprocess: iSCSI cleanup
PostIscsi ==
    /\ BestEffort("iscsi", "lvm",
                  Get(params, "storage_type", None) = "iscsi",
                  "iscsi cleanup")
    /\ UNCHANGED <<scenario, params, env, bridge, applied, grub,
                   kernel_modified, kernel_cmdline, screendump_thread,
                   vm_register_thread, pp_exc, grub_prepatch, patched,
                   intervened>>
    /\ UNCHANGED <<tests, notDrv>>

\* postprocess: LVM cleanup
PostLvm ==
    /\ BestEffort("lvm", "nfs",
                  Get(params, "storage_type", None) = "lvm",
                  "LVM cleanup")
    /\ UNCHANGED <<scenario, params, env, bridge, applied, grub,
                   kernel_modified, kernel_cmdline, screendump_thread,
                   vm_register_thread, pp_exc, grub_prepatch, patched,
                   intervened>>
    /\ UNCHANGED <<tests, notDrv>>

\* postprocess: NFS cleanup
PostNfs ==
    /\ BestEffort("nfs", "pb",
                  Get(params, "storage_type", None) = "nfs",
                  "nfs cleanup")
    /\ UNCHANGED <<scenario, params, env, bridge, applied, grub,
                   kernel_modified, kernel_cmdline, screendump_thread,
                   vm_register_thread, pp_exc, grub_prepatch, patched,
                   intervened>>
    /\ UNCHANGED <<tests, notDrv>>

\* the kernel command line restoration with its failure to find the kernel
\* entry collected in err instead of raised
PostKernelCollects ==
    /\ drv_pc = "kernel"
    /\ IF kernel_modified /\ Get(params, "restore_kernel_cmd", "yes") = "yes"
       THEN /\ cleaned' = cleaned \cup {"kernel"}
            /\ \/ /\ env' = Destroyed(env, DOMAIN env)
                  /\ IF KernelLines(grub) = {}
                     THEN /\ err' = Append(err, "Kernel restore")
                          /\ drv_pc' = "post_command"
                          /\ UNCHANGED <<grub, kernel_modified, pp_exc>>
                     ELSE /\ grub' = ReplaceContent(grub, FirstKernelLine(grub),
                                                    kernel_cmdline)
                          /\ kernel_modified' = FALSE
                          /\ drv_pc' = "post_command"
                          /\ UNCHANGED <<pp_exc, err>>
               \/ /\ DOMAIN env # {}
                  /\ \E done \in SUBSET DOMAIN env :
                        /\ done # DOMAIN env
                        /\ env' = Destroyed(env, done)
                  /\ pp_exc' = Raise("kernel", "VMDestroyError", <<>>)
                  /\ drv_pc' = "post_raised"
                  /\ UNCHANGED <<grub, kernel_modified, err>>
       ELSE /\ drv_pc' = "post_command"
            /\ UNCHANGED <<cleaned, env, grub, kernel_modified, pp_exc, err>>
    /\ UNCHANGED <<scenario, params, bridge, applied, kernel_cmdline,
                   screendump_thread, vm_register_thread, grub_prepatch,
                   patched, intervened>>
    /\ UNCHANGED <<tests, notDrv>>

\* postprocess: restore the kernel command line if a patch is pending; a
\* failing vm.destroy() and a boot configuration without kernel entry raise
PostKernel ==
    /\ drv_pc = "kernel"
    /\ IF kernel_modified /\ Get(params, "restore_kernel_cmd", "yes") = "yes"
       THEN /\ cleaned' = cleaned \cup {"kernel"}
            /\ \/ /\ env' = Destroyed(env, DOMAIN env)
                  /\ IF KernelLines(grub) = {}
                     THEN /\ pp_exc' = Raise("kernel", "TestError", <<>>)
                          /\ drv_pc' = "post_raised"
                          /\ UNCHANGED <<grub, kernel_modified>>
                     ELSE /\ grub' = ReplaceContent(grub, FirstKernelLine(grub),
                                                    kernel_cmdline)
                          /\ kernel_modified' = FALSE
                          /\ drv_pc' = "post_command"
                          /\ UNCHANGED pp_exc
               \/ /\ DOMAIN env # {}
                  /\ \E done \in SUBSET DOMAIN env :
                        /\ done # DOMAIN env
                        /\ env' = Destroyed(env, done)
                  /\ pp_exc' = Raise("kernel", "VMDestroyError", <<>>)
                  /\ drv_pc' = "post_raised"
                  /\ UNCHANGED <<grub, kernel_modified>>
       ELSE /\ drv_pc' = "post_command"
            /\ UNCHANGED <<cleaned, env, grub, kernel_modified, pp_exc>>
    /\ UNCHANGED <<scenario, params, bridge, applied, kernel_cmdline,
                   screendump_thread, vm_register_thread, err, grub_prepatch,
                   patched, intervened>>
    /\ UNCHANGED <<tests, notDrv>>

\* postprocess: whether the private bridge is to be cleaned up
CleanupPb(p) ==
    IF \E k \in 1..Len(Split(Get(p, "nics", ""))) :
          Get(p, "netdst_" \o Split(Get(p, "nics", ""))[k], None) = "private"
    THEN TRUE
    ELSE Get(p, "netdst", None) = "private"

\* postprocess: private bridge cleanup
PostBridge ==
    /\ drv_pc = "pb"
    /\ IF CleanupPb(params)
       THEN /\ cleaned' = cleaned \cup {"pb"}
            /\ \E ok \in BOOLEAN :
                  /\ err' = IF ok THEN err ELSE Append(err, "PB cleanup")
                  /\ bridge' = IF ok THEN FALSE ELSE bridge
       ELSE UNCHANGED <<cleaned, err, bridge>>
    /\ drv_pc' = "final"
    /\ UNCHANGED <<scenario, params, env, applied, grub, kernel_modified,
                   kernel_cmdline, screendump_thread, vm_register_thread,
                   pp_exc, grub_prepatch, patched, intervened>>
    /\ UNCHANGED <<tests, notDrv>>

AggregateNeverRaises(collected) == FALSE

\* "if err:" -- at least one failure was collected
AggregateRaises(collected) == collected # <<>>

\* postprocess: raise the aggregate VMError, else verify the host dmesg
PostFinal ==
    /\ drv_pc = "final"
    /\ IF AggregateRaises(err)
       THEN /\ pp_exc' = Raise("final", "VMError", err)
            /\ drv_pc' = "post_raised"
            /\ UNCHANGED cleaned
       ELSE IF Get(params, "verify_host_dmesg", "yes") = "yes"
            THEN /\ cleaned' = cleaned \cup {"verify_host_dmesg"}
                 /\ \E ok \in BOOLEAN :
                       IF ok THEN /\ drv_pc' = "post_done"
                                  /\ UNCHANGED pp_exc
                       ELSE /\ drv_pc' = "post_raised"
                            /\ pp_exc' = Raise("final", "TestFail", <<>>)
            ELSE /\ drv_pc' = "post_done"
                 /\ UNCHANGED <<cleaned, pp_exc>>
    /\ UNCHANGED <<scenario, params, env, bridge, applied, grub,
                   kernel_modified, kernel_cmdline, screendump_thread,
                   vm_register_thread, err, grub_prepatch, patched,
                   intervened>>
    /\ UNCHANGED <<tests, notDrv>>

\* postprocess has returned or raised: the runner goes on to the next test
TestDone ==
    /\ drv_pc \in {"post_done", "post_raised"}
    /\ drv_pc' = "idle"
    /\ params' = <<>>
    /\ applied' = {}
    /\ err' = <<>>
    /\ cleaned' = {}
    /\ pp_exc' = NoRaise
    /\ grub_prepatch' = <<>>
    /\ patched' = FALSE
    /\ intervened' = FALSE
    /\ UNCHANGED <<scenario, env, bridge, grub, kernel_modified,
                   kernel_cmdline, screendump_thread, vm_register_thread>>
    /\ UNCHANGED <<tests, notDrv>>

NextDrv ==
    \/ Preprocess
    \/ PreBridge
    \/ PreTuning
    \/ PreKernel
    \/ PreDispatch
    \/ PreThreads
    \/ TestInstallsKernel
    \/ TestRemovesKernel
    \/ Postprocess
    \/ PostDispatch
    \/ PostScreendumpJoin
    \/ PostHarvest
    \/ PostRegisterJoin
    \/ PostKillUnresponsive
    \/ PostKillDeleted
    \/ PostStopTcpdump
    \/ PostCloseMonitors
    \/ PostHugePages
    \/ PostThp
    \/ PostKsm
    \/ PostEgd
    \/ PostPolkit
    \/ PostKernel
    \/ PostCommand
    \/ PostIscsi
    \/ PostLvm
    \/ PostNfs
    \/ PostBridge
    \/ PostFinal
    \/ TestDone

\* a job whose tests leave the guest boot configuration alone
NextCleanup ==
    \/ Preprocess
    \/ PreBridge
    \/ PreTuning
    \/ PreKernel
    \/ PreDispatch
    \/ PreThreads
    \/ Postprocess
    \/ PostDispatch
    \/ PostScreendumpJoin
    \/ PostHarvest
    \/ PostRegisterJoin
    \/ PostKillUnresponsive
    \/ PostKillDeleted
    \/ PostStopTcpdump
    \/ PostCloseMonitors
    \/ PostHugePages
    \/ PostThp
    \/ PostKsm
    \/ PostEgd
    \/ PostPolkit
    \/ PostKernel
    \/ PostCommand
    \/ PostIscsi
    \/ PostLvm
    \/ PostNfs
    \/ PostBridge
    \/ PostFinal
    \/ TestDone

InitKernel == InitDrv("kernel", InitGrubs)

InitCleanup ==
    InitDrv("cleanup", {<< <<"menuentry">>, <<"linux16", "vmlinuz-3", "ro", "quiet">> >>})

\* tests that patch the guest kernel command line
SpecKernel == InitKernel /\ [][NextDrv]_vars

\* tests that request host tuning, storage and bridge cleanups
SpecCleanup == InitCleanup /\ [][NextCleanup]_vars

(***************************************************************************)
(* Background pollers and their cancellation protocol                      *)
(***************************************************************************)

\* thread slots of the model: a poller that outlives a timed out join keeps
\* its slot, an ended thread gives its slot back
MaxPollers == 2

Slots == 1..MaxPollers

\* _screendump_thread / _vm_register_thread is None
NoThread == 0

\* the thread is inside its while True loop
Running(s) ==
    pollers[s].pc \in {"work", "check_none", "check_set", "assign_none", "wait"}

\* the thread never started or has ended
Free(s) == ~Running(s)

InitPoll ==
    /\ poll_kind \in {"ScreenDump", "VmRegister"}
    /\ poll_env = {}
    /\ termination_event = None
    /\ poller_thread = NoThread
    /\ pollers = [s \in Slots |-> [pc |-> "free", signalled |-> FALSE, woke |-> None]]
    /\ poll_pc = "idle"
    /\ set_failed = FALSE
    /\ RestSched
    /\ RestImg
    /\ RestDrv
    /\ RestVm
    /\ RestSd
    /\ RestVr
    /\ RestProc
    /\ RestRc
    /\ RestSv
    /\ RestPv

\* the VMs that preprocess can leave registered in the Environment
PollVms == {"vm1", "vm2"}

\* preprocess: the main thread drops entries of the Environment and has
\* process() create the VMs of the test; then, thread startup: with the flag
\* of the poller at yes a fresh Event is bound to the module-level reference
\* and a new thread started
PreprocessStartsPoller ==
    /\ poll_pc = "idle"
    /\ \E start \in BOOLEAN :
          IF start
          THEN \E s \in Slots :
                  /\ Free(s)
                  /\ \A q \in Slots : q < s => Running(q)
                  /\ termination_event' = "unset"
                  /\ poller_thread' = s
                  /\ pollers' = [pollers EXCEPT
                                    ![s] = [pc |-> "work", signalled |-> FALSE,
                                            woke |-> None]]
          ELSE UNCHANGED <<termination_event, poller_thread, pollers>>
    /\ poll_env' \in SUBSET PollVms
    /\ poll_pc' = "test"
    /\ set_failed' = FALSE
    /\ UNCHANGED <<poll_kind, notPoll>>

\* postprocess: if the thread reference is not None, call set() on whatever
\* the module-level event reference holds now; None has no set()
PostprocessSetsEvent ==
    /\ poll_pc = "test"
    /\ IF poller_thread = NoThread
       THEN /\ poll_pc' = "idle"
            /\ UNCHANGED <<termination_event, pollers, set_failed>>
       ELSE IF termination_event = None
            THEN /\ set_failed' = TRUE
                 /\ poll_pc' = "idle"
                 /\ UNCHANGED <<termination_event, pollers>>
            ELSE /\ termination_event' = "set"
                 /\ pollers' = [pollers EXCEPT ![poller_thread].signalled = TRUE]
                 /\ poll_pc' = "join"
                 /\ UNCHANGED set_failed
    /\ UNCHANGED <<poll_kind, poll_env, poller_thread, notPoll>>

\* postprocess: join(10) returns when the thread has ended or after ten
\* seconds, whichever comes first; the thread reference is dropped
PostprocessJoins ==
    /\ poll_pc = "join"
    /\ poller_thread' = NoThread
    /\ poll_pc' = "idle"
    /\ UNCHANGED <<poll_kind, poll_env, termination_event, pollers,
                   set_failed, notPoll>>

\* the poller moves on
Goto(s, pc) == [pollers EXCEPT ![s].pc = pc]

\* a round of per-VM work that unregisters the VMs it finds dead
PollerWorkUnregisters(s) ==
    /\ pollers[s].pc = "work"
    /\ pollers' = Goto(s, "check_none")
    /\ \E dead \in SUBSET poll_env : poll_env' = poll_env \ dead
    /\ UNCHANGED <<poll_kind, termination_event, poller_thread, poll_pc,
                   set_failed, notPoll>>

\* poller: one round of per-VM work over env.get_all_vms(), which
\* terminates; the VMs are asked for their state, a screendump or their
\* registers, and the Environment is only read
PollerWork(s) ==
    /\ pollers[s].pc = "work"
    /\ pollers' = Goto(s, "check_none")
    /\ UNCHANGED <<poll_kind, poll_env, termination_event, poller_thread,
                   poll_pc, set_failed, notPoll>>

\* poller: if <event> is not None ... else: break
PollerChecksNone(s) ==
    /\ pollers[s].pc = "check_none"
    /\ pollers' = Goto(s, IF termination_event # None THEN "check_set"
                                                      ELSE "exited")
    /\ UNCHANGED <<poll_kind, poll_env, termination_event, poller_thread,
                   poll_pc, set_failed, notPoll>>

\* poller: if <event>.isSet(), on the reference as it is now
PollerChecksSet(s) ==
    /\ pollers[s].pc = "check_set"
    /\ pollers' = Goto(s, CASE termination_event = None -> "crashed"
                            [] termination_event = "set" -> "assign_none"
                            [] termination_event = "unset" -> "wait")
    /\ UNCHANGED <<poll_kind, poll_env, termination_event, poller_thread,
                   poll_pc, set_failed, notPoll>>

\* poller: <event> = None; break
PollerNullsEvent(s) ==
    /\ pollers[s].pc = "assign_none"
    /\ termination_event' = None
    /\ pollers' = Goto(s, "exited")
    /\ UNCHANGED <<poll_kind, poll_env, poller_thread, poll_pc, set_failed,
                   notPoll>>

AfterWaitLeavesOnSet(event) ==
    CASE event = None -> "crashed"
      [] event = "set" -> "exited"
      [] event = "unset" -> "work"

\* poller: where control goes when <event>.wait(delay) is over: wait() is
\* the last statement of the loop body, the next round of work follows
AfterWait(event) == IF event = None THEN "crashed" ELSE "work"

\* poller: <event>.wait(delay) returns when the event is set or the delay
\* is over; the next round follows
PollerWaits(s) ==
    /\ pollers[s].pc = "wait"
    /\ pollers' = [pollers EXCEPT
                      ![s].pc = AfterWait(termination_event),
                      ![s].woke = CASE termination_event = None -> @
                                    [] termination_event = "set" -> "set"
                                    [] termination_event = "unset" -> "delay"]
    /\ UNCHANGED <<poll_kind, poll_env, termination_event, poller_thread,
                   poll_pc, set_failed, notPoll>>

PollerStep(s) ==
    \/ PollerWork(s)
    \/ PollerChecksNone(s)
    \/ PollerChecksSet(s)
    \/ PollerNullsEvent(s)
    \/ PollerWaits(s)

NextPoll ==
    \/ PreprocessStartsPoller
    \/ PostprocessSetsEvent
    \/ PostprocessJoins
    \/ \E s \in Slots : PollerWork(s)
    \/ \E s \in Slots : PollerChecksNone(s)
    \/ \E s \in Slots : PollerChecksSet(s)
    \/ \E s \in Slots : PollerNullsEvent(s)
    \/ \E s \in Slots : PollerWaits(s)

SpecPoll == InitPoll /\ [][NextPoll]_vars

\* every poller thread that can take a step eventually takes one (the
\* interpreter schedules every runnable thread), and every test ends: the
\* runner calls postprocess, whose signal and bounded join return
FairSpecPoll ==
    /\ SpecPoll
    /\ \A s \in Slots : WF_vars(PollerStep(s))
    /\ WF_vars(PostprocessSetsEvent)
    /\ WF_vars(PostprocessJoins)

(***************************************************************************)
(* preprocess_vm: the kernel command line check on the serial console      *)
(***************************************************************************)

\* "option in kernel_cmd_line" is Python's substring test on the line: an
\* option is found if some word of the line contains it
SubstringOf(option, word) ==
    \/ option = word
    \/ <<option, word>> \in {<<"ro", "root=/dev/sda">>, <<"pci=nomsi", "pci=nomsix">>}

InLine(option, line) == \E i \in 1..Len(line) : SubstringOf(option, line[i])

\* the words of str.split()
Words(str) ==
    CASE str = "" -> <<>>
      [] str = "ro quiet" -> <<"ro", "quiet">>
      [] OTHER -> <<str>>

\* the messages of the options of kernel_options_exist missing from the line
\* and of the options of kernel_options_not_exist found in it, in loop order
RECURSIVE Missing(_, _)
Missing(options, line) ==
    IF options = <<>> THEN <<>>
    ELSE (IF InLine(Head(options), line) THEN <<>>
          ELSE <<<<Head(options), "not in kernel command line as expect.">>>>)
         \o Missing(Tail(options), line)

RECURSIVE Unwanted(_, _)
Unwanted(options, line) ==
    IF options = <<>> THEN <<>>
    ELSE (IF InLine(Head(options), line)
          THEN <<<<Head(options), "exist in kernel command line.">>>>
          ELSE <<>>)
         \o Unwanted(Tail(options), line)

ErrMsg(p, line) ==
    Missing(Words(Get(p, "kernel_options_exist", "")), line)
        \o Unwanted(Words(Get(p, "kernel_options_not_exist", "")), line)

\* the body of the try block: the exception it raises, if any, and the
\* message it logs at info level otherwise
TryBody(p, output) ==
    IF output.timeout
    THEN [raised |-> "ExpectTimeoutError", log |-> <<>>]
    ELSE IF ErrMsg(p, output.line) # <<>>
         THEN [raised |-> "TestError", log |-> <<>>]
         ELSE [raised |-> None, log |-> <<"info: as expect">>]

ExceptNothing(r) == r

\* except Exception, err: logging.warn(...); every exception of the try
\* block is an Exception, and the handler does not raise
ExceptException(r) ==
    IF r.raised # None
    THEN [raised |-> None, log |-> <<"warn: skip the check, error is", r.raised>>]
    ELSE r

\* the block of preprocess_vm that checks the kernel command line
KernelCmdLineCheck(p, state, console, output) ==
    IF Get(p, "check_kernel_cmd_line_from_serial", None) # "yes"
    THEN [raised |-> None, log |-> <<>>]
    ELSE IF state = "paused" \/ state = "dead" \/ ~console
         THEN [raised |-> None, log |-> <<"warn: skip the check">>]
         ELSE ExceptException(TryBody(p, output))

VmOptions ==
    [check_kernel_cmd_line_from_serial |-> {"yes", "no"},
     kernel_options_exist |-> {"pci=nomsi", "ro quiet"},
     kernel_options_not_exist |-> {"quiet"}]

SerialOutputs ==
    {[timeout |-> TRUE, line |-> <<>>]}
        \cup {[timeout |-> FALSE, line |-> l] :
                l \in {<<"Command line:", "root=/dev/sda">>,
                       <<"Command line:", "ro", "quiet">>,
                       <<"Command line:", "ro", "pci=nomsi">>,
                       <<"Command line:", "ro", "quiet", "pci=nomsix">>}}

InitVm ==
    /\ vm_params \in BoundedDicts(VmOptions, MaxVmParams)
    /\ vm_state \in {"running", "paused", "dead"}
    /\ serial_console \in BOOLEAN
    /\ serial_output \in SerialOutputs
    /\ vm_pc = "call"
    /\ vm_raised = None
    /\ vm_log = <<>>
    /\ RestSched
    /\ RestImg
    /\ RestDrv
    /\ RestPoll
    /\ RestSd
    /\ RestVr
    /\ RestProc
    /\ RestRc
    /\ RestSv
    /\ RestPv

\* preprocess_vm arrives at the check with the VM in vm_state
PreprocessVmCheck ==
    /\ vm_pc = "call"
    /\ LET r == KernelCmdLineCheck(vm_params, vm_state, serial_console,
                                   serial_output)
       IN  /\ vm_raised' = r.raised
           /\ vm_log' = r.log
    /\ vm_pc' = "done"
    /\ UNCHANGED <<vm_params, vm_state, serial_console, serial_output, notVm>>

NextVm == PreprocessVmCheck

SpecVm == InitVm /\ [][NextVm]_vars

(***************************************************************************)
(* Screendump poller: the work done for one VM in one round                *)
(***************************************************************************)

\* the clock of the model stops here
MaxClock == 4

\* the VMs of the Environment and the fingerprints their screens can have
SdVms == {"vm1", "vm2"}

Fingerprints == {"h1", "h2"}

\* no file
NoFile == [vm |-> None, n |-> 0]

\* dict.get with the default the loop installs first
Installed(d, k, v) == IF k \in DOMAIN d THEN d ELSE (k :> v) @@ d

\* the inactivity signal of a duplicate frame: nothing unless the screen has
\* been unchanged for more than the treshold, then by inactivity_watcher
InactivitySignal(watcher, treshold, time_inactive) ==
    IF time_inactive > treshold
    THEN CASE watcher = "error" -> "error"
           [] watcher = "log" -> "log"
           [] OTHER -> None
    ELSE None

\* the inactivity clock after a duplicate frame: only the error branch
\* resets it
ClockAfterDuplicate(signal, clock, now) ==
    IF signal = "error" THEN now ELSE clock

\* the frame number if a duplicate frame gave its slot back
CounterKeptOnDuplicate(before, op) ==
    IF op \in {"encode_failed", "link"} THEN before ELSE before + 1

\* the frame number after the frame has been dealt with: advanced before the
\* fingerprint is looked up, taken back only when the encoding failed
CounterAfter(before, op) ==
    IF op = "encode_failed" THEN before ELSE before + 1

\* whether temp_filename exists when an iteration that wrote no screendump
\* ends: a dead VM and a VM without screendump leave it as it was, a monitor
\* command that failed may or may not have written it, a missing file is
\* missing, an invalid one is unlinked
ScratchAfterSkip(shot, exists, wrote) ==
    CASE shot \in {"dead", "AttributeError"} -> exists
      [] shot = "MonitorError" -> exists \/ wrote
      [] OTHER -> FALSE

InitSd ==
    /\ sd_watcher \in {"log", "error", "none"}
    /\ sd_treshold \in {1, 2}
    /\ sd_now = 0
    /\ sd_cache = <<>>
    /\ sd_counter = <<>>
    /\ sd_inactivity = <<>>
    /\ sd_errors = 0
    /\ sd_prev = <<>>
    /\ sd_temp = FALSE
    /\ sd_files = {}
    /\ sd_event = [vm |-> None, shot |-> None, op |-> None, signal |-> None,
                   before |-> 0, prev |-> None, hash |-> None, src |-> NoFile,
                   dst |-> NoFile]
    /\ RestSched
    /\ RestImg
    /\ RestDrv
    /\ RestPoll
    /\ RestVm
    /\ RestVr
    /\ RestProc
    /\ RestRc
    /\ RestSv
    /\ RestPv

\* _take_screendumps: the body of "for vm in env.get_all_vms()" for one VM
TakeScreendump ==
    \E vm \in SdVms, dt \in {1, 2} :
        /\ sd_now + dt <= MaxClock
        /\ sd_now' = sd_now + dt
        /\ LET now == sd_now + dt
               counter == Installed(sd_counter, vm, 0)
               inactivity == Installed(sd_inactivity, vm, now)
               before == counter[vm]
               slot == [vm |-> vm, n |-> before + 1]
               prev == IF vm \in DOMAIN sd_prev THEN sd_prev[vm] ELSE None
           IN  \/ \E shot \in {"dead", "MonitorError", "AttributeError",
                               "missing", "invalid"},
                        wrote \in BOOLEAN :
                     /\ shot = "missing" => ~sd_temp
                     /\ shot # "MonitorError" => ~wrote
                     /\ sd_temp' = ScratchAfterSkip(shot, sd_temp, wrote)
                     /\ UNCHANGED <<sd_prev, sd_files>>
                     /\ sd_counter' = counter
                     /\ sd_inactivity' = inactivity
                     /\ sd_event' = [vm |-> vm, shot |-> shot, op |-> None,
                                     signal |-> None, before |-> before,
                                     prev |-> prev, hash |-> None,
                                     src |-> NoFile, dst |-> NoFile]
                     /\ UNCHANGED <<sd_cache, sd_errors>>
               \/ \E h \in DOMAIN sd_cache, linked \in BOOLEAN :
                     LET signal == InactivitySignal(sd_watcher, sd_treshold,
                                                    now - inactivity[vm])
                     IN  /\ sd_prev' = (vm :> h) @@ sd_prev
                         /\ sd_temp' = FALSE
                         /\ sd_files' = IF linked THEN sd_files \cup {slot}
                                                  ELSE sd_files
                         /\ sd_counter' = [counter EXCEPT
                                              ![vm] = CounterAfter(before, "link")]
                         /\ sd_inactivity' =
                               [inactivity EXCEPT
                                   ![vm] = ClockAfterDuplicate(signal, @, now)]
                         /\ sd_errors' = IF signal = "error"
                                         THEN sd_errors + 1 ELSE sd_errors
                         /\ sd_event' = [vm |-> vm, shot |-> "ok",
                                         op |-> "link", signal |-> signal,
                                         before |-> before, prev |-> prev,
                                         hash |-> h,
                                         src |-> sd_cache[h], dst |-> slot]
                         /\ UNCHANGED sd_cache
               \/ \E h \in Fingerprints \ DOMAIN sd_cache,
                     op \in {"encode", "encode_failed", "no_pil"} :
                     /\ sd_prev' = (vm :> h) @@ sd_prev
                     /\ sd_temp' = FALSE
                     /\ sd_files' = IF op = "encode" THEN sd_files \cup {slot}
                                                      ELSE sd_files
                     /\ sd_counter' = [counter EXCEPT
                                          ![vm] = CounterAfter(before, op)]
                     /\ sd_inactivity' = [inactivity EXCEPT ![vm] = now]
                     /\ sd_cache' = IF op = "encode"
                                    THEN (h :> slot) @@ sd_cache ELSE sd_cache
                     /\ sd_event' = [vm |-> vm, shot |-> "ok", op |-> op,
                                     signal |-> None, before |-> before,
                                     prev |-> prev, hash |-> h, src |-> NoFile,
                                     dst |-> IF op = "encode" THEN slot
                                                              ELSE NoFile]
                     /\ UNCHANGED sd_errors
        /\ UNCHANGED <<sd_watcher, sd_treshold, notSd>>

NextSd == TakeScreendump

SpecSd == InitSd /\ [][NextSd]_vars

(***************************************************************************)
(* Register poller: the work done for one VM in one round, and the summary *)
(***************************************************************************)

\* per-VM iterations of one thread
MaxRegSteps == 5

VrVms == {"vm1", "vm2"}

\* nothing logged yet about the VM: warnings of the streak under way or just
\* ended, its length so far, the length of the last streak that ended, and
\* the count the "alive now" message gave when it ended
NoHist == [warned |-> 0, streak |-> 0, last_streak |-> 0, recovered |-> 0]

\* the miss count left when the VM is kept after a recovery
CountKeptAfterAlive(count) == count

\* vm_register_error_count[vm.instance] = 0 once the VM answers again
CountAfterAlive(count) == 0

\* report_result: the VMs whose miss count is positive, with the count
ReportResult(results) ==
    {<<v, results[v]>> : v \in {w \in DOMAIN results : results[w] > 0}}

InitVr ==
    /\ vr_error_count = <<>>
    /\ vr_counter = <<>>
    /\ vr_hist = <<>>
    /\ vr_summary = {}
    /\ vr_pc = "running"
    /\ vr_steps = 0
    /\ RestSched
    /\ RestImg
    /\ RestDrv
    /\ RestPoll
    /\ RestVm
    /\ RestSd
    /\ RestProc
    /\ RestRc
    /\ RestSv
    /\ RestPv

\* _store_vm_register: the body of "for vm in env.get_all_vms()" for one VM
StoreVmRegister ==
    /\ vr_pc = "running"
    /\ vr_steps < MaxRegSteps
    /\ vr_steps' = vr_steps + 1
    /\ \E vm \in VrVms, alive \in BOOLEAN :
          LET count == Installed(vr_error_count, vm, 0)
              hist == Installed(vr_hist, vm, NoHist)
              h == hist[vm]
          IN  IF ~alive
              THEN /\ vr_error_count' = [count EXCEPT ![vm] = @ + 1]
                   /\ vr_hist' =
                         [hist EXCEPT
                             ![vm].warned = (IF h.streak = 0 THEN 0 ELSE @)
                                 + (IF count[vm] < 1 THEN 1 ELSE 0),
                             ![vm].streak = @ + 1]
                   /\ UNCHANGED vr_counter
              ELSE \E stored_log \in BOOLEAN :
                      LET counter == Installed(vr_counter, vm, 1)
                      IN  /\ vr_error_count' =
                                [count EXCEPT
                                    ![vm] = IF @ >= 1 THEN CountAfterAlive(@)
                                                      ELSE @]
                          /\ vr_hist' =
                                [hist EXCEPT
                                    ![vm].recovered =
                                        IF count[vm] >= 1 THEN count[vm] ELSE @,
                                    ![vm].last_streak =
                                        IF h.streak > 0 THEN h.streak ELSE @,
                                    ![vm].streak = 0]
                          /\ vr_counter' =
                                [counter EXCEPT
                                    ![vm] = IF stored_log THEN @ + 1 ELSE @]
    /\ UNCHANGED <<vr_summary, vr_pc, notVr>>

\* _store_vm_register: the thread leaves its loop on either path and
\* report_result("Thread quit", vm_register_error_count) is called
RegisterThreadQuits ==
    /\ vr_pc = "running"
    /\ vr_summary' = ReportResult(vr_error_count)
    /\ vr_pc' = "quit"
    /\ UNCHANGED <<vr_error_count, vr_counter, vr_hist, vr_steps, notVr>>

NextVr ==
    \/ StoreVmRegister
    \/ RegisterThreadQuits

SpecVr == InitVr /\ [][NextVr]_vars

(***************************************************************************)
(* process: the dispatch of the image and VM functions                     *)
(***************************************************************************)

\* at most this many of the optional keys are in a configuration
MaxProcParams == 2

\* the keys that are looked up for a VM or for an image
ProcKeys ==
    {"images", "create_image", "remove_image", "check_image", "kill_vm",
     "skip_image_processing"}

\* params.object_params(obj): every key, with the value of <key>_<obj>
\* taking precedence where it is given
ObjectParams(p, obj) ==
    LET keys == DOMAIN p \cup {k \in ProcKeys : (k \o "_" \o obj) \in DOMAIN p}
    IN  [k \in keys |-> IF (k \o "_" \o obj) \in DOMAIN p
                        THEN p[k \o "_" \o obj] ELSE p[k]]

\* the stages with the VM function first whatever vm_first is
StageOrderVmFirst(vm_first) == <<"vms", "images">>

\* process: if not vm_first: _call_image_func(); _call_vm_func();
\* if vm_first: _call_image_func()
StageOrder(vm_first) ==
    IF vm_first THEN <<"vms", "images">> ELSE <<"images", "vms">>

\* the image list without its last image
ImagesButLast(p) ==
    SubSeq(Split(Get(p, "images", "")), 1, Len(Split(Get(p, "images", ""))) - 1)

\* process_images: images = params.objects("images")
ImagesOf(p) == Split(Get(p, "images", ""))

\* the image calls made for one VM, or for no VM at all
CallsFor(vm, p) == [i \in 1..Len(ImagesOf(p)) |-> [vm |-> vm, image |-> ImagesOf(p)[i]]]

\* _call_image_func: the entries of the loop over the VMs that stand for
\* the statements before and after process_images
EnterVm == "<pause>"
LeaveVm == "<resume>"

\* _call_image_func, for every VM in turn: the statements before
\* process_images, the image calls, the finally clause
RECURSIVE VmImageCalls(_, _)
VmImageCalls(p, vms) ==
    IF vms = <<>> THEN <<>>
    ELSE <<[vm |-> Head(vms), image |-> EnterVm]>>
             \o CallsFor(Head(vms), ObjectParams(p, Head(vms)))
             \o <<[vm |-> Head(vms), image |-> LeaveVm]>>
             \o VmImageCalls(p, Tail(vms))

\* _call_image_func: nothing under skip_image_processing=yes, the images of
\* every VM in turn when there are VMs, those of params otherwise
ImageCalls(p) ==
    IF Get(p, "skip_image_processing", None) = "yes" THEN <<>>
    ELSE IF Split(Get(p, "vms", "")) # <<>>
         THEN VmImageCalls(p, Split(Get(p, "vms", "")))
         ELSE CallsFor(None, p)

\* _call_vm_func: every VM of params in turn
VmCalls(p) ==
    [i \in 1..Len(Split(Get(p, "vms", ""))) |->
        [vm |-> Split(Get(p, "vms", ""))[i], image |-> None]]

StageCalls(stage, p) == IF stage = "images" THEN ImageCalls(p) ELSE VmCalls(p)

\* _call_image_func: vm_process_status of the VM whose images are processed
VmProcessStatus(vm, e) ==
    IF vm = None THEN None
    ELSE IF vm \notin DOMAIN e \/ e[vm] = "dead" THEN "dead"
    ELSE "running"

\* _call_image_func: the params handed to process_images for the VM; a VM
\* that had to be paused gets skip_cluster_leak_warn
VmParams(p, vm, unpause_vm) ==
    IF vm = None THEN p
    ELSE IF unpause_vm
         THEN Put(ObjectParams(p, vm), "skip_cluster_leak_warn", "yes")
         ELSE ObjectParams(p, vm)

ProcBases ==
    {[images |-> "a b c"],
     [vms |-> "vm1", images |-> "a b c"],
     [vms |-> "vm1 vm2", images |-> "a", images_vm2 |-> "b c"],
     [vms |-> "vm1 vm2", images |-> "a b c"]}

ProcOptions ==
    [create_image |-> {"yes", "no"}, skip_image_processing |-> {"yes"},
     remove_image |-> {"yes"}, check_image |-> {"yes"}, kill_vm |-> {"yes"}]

ProcParamSpace ==
    {o @@ b : o \in BoundedDicts(ProcOptions, MaxProcParams), b \in ProcBases}

InitProc ==
    /\ proc_func = "pre"
    /\ proc_params \in ProcParamSpace
    /\ proc_env \in {<<>>,
                     [v \in {Split(Get(proc_params, "vms", ""))[i] :
                                i \in 1..Len(Split(Get(proc_params, "vms", "")))}
                        |-> "running"]}
    /\ proc_files0 \in {{}, {"a"}}
    /\ proc_files = proc_files0
    /\ proc_created = [i \in {"a", "b", "c"} |-> 0]
    /\ proc_calls = <<>>
    /\ proc_stages = <<>>
    /\ proc_todo = <<>>
    /\ proc_paused = None
    /\ proc_pc = "call"
    /\ RestSched
    /\ RestImg
    /\ RestDrv
    /\ RestPoll
    /\ RestVm
    /\ RestSd
    /\ RestVr
    /\ RestRc
    /\ RestSv
    /\ RestPv

\* process(test, params, env, image_func, vm_func, vm_first) is entered
ProcessCalled ==
    /\ proc_pc = "call"
    /\ proc_stages' = StageOrder(proc_func = "post")
    /\ proc_todo' = StageCalls(Head(StageOrder(proc_func = "post")), proc_params)
    /\ proc_pc' = "stage"
    /\ UNCHANGED <<proc_func, proc_params, proc_env, proc_files, proc_files0,
                   proc_created, proc_calls, proc_paused, notProc>>

UnpauseVmAlways(vm, e) == vm \in DOMAIN e /\ e[vm] # "dead"

\* _call_image_func: unpause_vm, set for a VM that is registered, alive and
\* not paused
UnpauseVm(vm, e) == vm \in DOMAIN e /\ e[vm] = "running"

\* vm.resume() on the VM that was paused, if any
Resumed(e, vm) == IF vm = None THEN e ELSE [e EXCEPT ![vm] = "running"]

\* _process_images_serial: image_func(test, image_params, image_name,
\* vm_process_status) for the next image
CallImageFunc ==
    /\ proc_pc = "stage"
    /\ Head(proc_stages) = "images"
    /\ proc_todo # <<>>
    /\ Head(proc_todo).image \notin {EnterVm, LeaveVm}
    /\ LET c == Head(proc_todo)
           image_params == ObjectParams(VmParams(proc_params, c.vm,
                                                 proc_paused # None),
                                        c.image)
           status == VmProcessStatus(c.vm, proc_env)
           exists == c.image \in proc_files
       IN  \E backend_ok \in BOOLEAN, info \in {"none", "lazy", "plain"},
              chk \in {"ok", "leak", "error"} :
              LET r == IF proc_func = "pre"
                       THEN PreprocessImageRun(image_params, exists, backend_ok)
                       ELSE PostprocessImageRun(image_params, c.image, status,
                                                exists, info, chk)
              IN  /\ proc_files' = IF r.exists
                                   THEN proc_files \cup {c.image}
                                   ELSE proc_files \ {c.image}
                  /\ proc_created' =
                        [proc_created EXCEPT
                            ![c.image] = IF Has(r.ops, "create") THEN @ + 1
                                                                 ELSE @]
                  /\ proc_calls' =
                        Append(proc_calls,
                               [func |-> proc_func \o "process_image",
                                vm |-> c.vm, image |-> c.image])
                  /\ IF r.result = "returned"
                     THEN /\ proc_todo' = Tail(proc_todo)
                          /\ UNCHANGED <<proc_pc, proc_env, proc_paused>>
                     ELSE \* finally: if unpause_vm: vm.resume()
                          /\ proc_env' = Resumed(proc_env, proc_paused)
                          /\ proc_paused' = None
                          /\ proc_pc' = "raised"
                          /\ UNCHANGED proc_todo
    /\ UNCHANGED <<proc_func, proc_params, proc_files0, proc_stages, notProc>>

\* _call_image_func: a VM that is alive and not paused is paused before its
\* images are processed
PauseVm ==
    /\ proc_pc = "stage"
    /\ Head(proc_stages) = "images"
    /\ proc_todo # <<>>
    /\ Head(proc_todo).image = EnterVm
    /\ LET vm == Head(proc_todo).vm
       IN  IF UnpauseVm(vm, proc_env)
           THEN /\ proc_env' = [proc_env EXCEPT ![vm] = "paused"]
                /\ proc_paused' = vm
           ELSE /\ proc_paused' = None
                /\ UNCHANGED proc_env
    /\ proc_todo' = Tail(proc_todo)
    /\ UNCHANGED <<proc_func, proc_params, proc_files, proc_files0,
                   proc_created, proc_calls, proc_stages, proc_pc, notProc>>

\* _call_image_func, the finally clause after process_images returned
ResumeVm ==
    /\ proc_pc = "stage"
    /\ Head(proc_stages) = "images"
    /\ proc_todo # <<>>
    /\ Head(proc_todo).image = LeaveVm
    /\ proc_env' = Resumed(proc_env, proc_paused)
    /\ proc_paused' = None
    /\ proc_todo' = Tail(proc_todo)
    /\ UNCHANGED <<proc_func, proc_params, proc_files, proc_files0,
                   proc_created, proc_calls, proc_stages, proc_pc, notProc>>

\* _call_vm_func: vm_func(test, vm_params, env, vm_name) for the next VM;
\* preprocess_vm leaves a running or a paused VM behind (the latter under
\* paused_after_start_vm), postprocess_vm destroys the VM
\* under kill_vm=yes, and either may raise
CallVmFunc ==
    /\ proc_pc = "stage"
    /\ Head(proc_stages) = "vms"
    /\ proc_todo # <<>>
    /\ LET c == Head(proc_todo)
           params_of_vm == ObjectParams(proc_params, c.vm)
       IN  /\ proc_calls' = Append(proc_calls,
                                   [func |-> proc_func \o "process_vm",
                                    vm |-> c.vm, image |-> None])
           /\ \E ok \in BOOLEAN, started \in {"running", "paused"} :
                 IF ok
                 THEN /\ proc_env' =
                            IF proc_func = "pre"
                            THEN (c.vm :> started) @@ proc_env
                            ELSE IF c.vm \in DOMAIN proc_env
                                    /\ Get(params_of_vm, "kill_vm", None) = "yes"
                                 THEN [proc_env EXCEPT ![c.vm] = "dead"]
                                 ELSE proc_env
                      /\ proc_todo' = Tail(proc_todo)
                      /\ UNCHANGED proc_pc
                 ELSE /\ proc_pc' = "raised"
                      /\ UNCHANGED <<proc_env, proc_todo>>
    /\ UNCHANGED <<proc_func, proc_params, proc_files, proc_files0,
                   proc_created, proc_stages, proc_paused, notProc>>

\* the loop of the stage is over: the other stage follows, or process returns
StageDone ==
    /\ proc_pc = "stage"
    /\ proc_todo = <<>>
    /\ proc_stages' = Tail(proc_stages)
    /\ IF Tail(proc_stages) = <<>>
       THEN /\ proc_pc' = "returned"
            /\ UNCHANGED proc_todo
       ELSE /\ proc_todo' = StageCalls(Head(Tail(proc_stages)), proc_params)
            /\ UNCHANGED proc_pc
    /\ UNCHANGED <<proc_func, proc_params, proc_env, proc_files, proc_files0,
                   proc_created, proc_calls, proc_paused, notProc>>

\* the test is over: postprocess dispatches on the same params
PostprocessFollows ==
    /\ proc_pc \in {"returned", "raised"}
    /\ proc_func = "pre"
    /\ proc_func' = "post"
    /\ proc_pc' = "call"
    /\ proc_stages' = <<>>
    /\ proc_todo' = <<>>
    /\ UNCHANGED <<proc_params, proc_env, proc_files, proc_files0,
                   proc_created, proc_calls, proc_paused, notProc>>

\* postprocess, after the dispatch returned or raised into the collected
\* failures: kill VMs with deleted disks; vm.destroy() is not guarded
KillVmsWithDeletedDisks ==
    /\ proc_func = "post"
    /\ proc_pc \in {"returned", "raised"}
    /\ LET todo == {v \in DeletedDiskVms(proc_params, proc_env) :
                        proc_env[v] # "dead"}
       IN  \/ /\ proc_env' = Destroyed(proc_env, todo)
              /\ proc_pc' = "killed"
           \/ /\ todo # {}
              /\ \E done \in SUBSET todo :
                    /\ done # todo
                    /\ proc_env' = Destroyed(proc_env, done)
              /\ proc_pc' = "kill_raised"
    /\ UNCHANGED <<proc_func, proc_params, proc_files, proc_files0,
                   proc_created, proc_calls, proc_stages, proc_todo,
                   proc_paused, notProc>>

NextProc ==
    \/ ProcessCalled
    \/ PauseVm
    \/ CallImageFunc
    \/ ResumeVm
    \/ CallVmFunc
    \/ StageDone
    \/ PostprocessFollows
    \/ KillVmsWithDeletedDisks

SpecProc == InitProc /\ [][NextProc]_vars

(***************************************************************************)
(* preprocess: the VMs that are no longer needed leave the environment     *)
(***************************************************************************)

\* at most this many entries are in the environment when preprocess starts
MaxEnvEntries == 3

\* the keys of the environment: registered VMs and the tcpdump server
EnvKeys == {"vm__vm1", "vm__vm2", "vm__vm3", "tcpdump"}

\* the object behind an environment key, with the state preprocess may find
\* it in
EnvEntries(key) ==
    IF key = "tcpdump"
    THEN {[class |-> "Tail", name |-> None, state |-> "running"]}
    ELSE {[class |-> "BaseVM",
           name |-> CHOOSE n \in {"vm1", "vm2", "vm3"} : key = "vm__" \o n,
           state |-> st] : st \in {"running", "dead"}}

\* the environments preprocess may be called with
Environments ==
    UNION {{e \in [S -> UNION {EnvEntries(k) : k \in S}] :
               \A k \in S : e[k] \in EnvEntries(k)} :
           S \in {T \in SUBSET EnvKeys : Cardinality(T) <= MaxEnvEntries}}

\* the configurations of vms and migrate_vms
ReconcileParams ==
    {("vms" :> v) : v \in {"vm1", "vm1 vm2"}}
    \cup {("vms" :> v) @@ ("migrate_vms" :> m) :
             v \in {"vm1", "vm1 vm2"}, m \in {"", "vm2"}}

\* list(set(...)): the elements of a set in some order
Orderings(S) ==
    {f \in [1..Cardinality(S) -> S] :
        \A i, j \in 1..Cardinality(S) : f[i] = f[j] => i = j}

\* ' '.join(seq)
RECURSIVE Join(_)
Join(seq) ==
    IF seq = <<>> THEN ""
    ELSE IF Len(seq) = 1 THEN seq[1]
    ELSE seq[1] \o " " \o Join(Tail(seq))

\* the elements of a list
Elems(seq) == {seq[i] : i \in 1..Len(seq)}

AnyEntry(entry) == TRUE

\* isinstance(vm, virt_vm.BaseVM)
IsBaseVM(entry) == entry.class = "BaseVM"

InitRc ==
    /\ rc_params \in ReconcileParams
    /\ rc_params0 = rc_params
    /\ rc_env \in Environments
    /\ rc_env0 = rc_env
    /\ rc_keys = {}
    /\ rc_dropped = {}
    /\ rc_pc = "merge"
    /\ RestSched
    /\ RestImg
    /\ RestDrv
    /\ RestPoll
    /\ RestVm
    /\ RestSd
    /\ RestVr
    /\ RestProc
    /\ RestSv
    /\ RestPv

\* migrate_vms are added to vms, and the loop over env.keys() is entered
MergeMigrateVms ==
    /\ rc_pc = "merge"
    /\ LET migrate_vms == Split(Get(rc_params, "migrate_vms", ""))
           configured == Split(Get(rc_params, "vms", ""))
       IN IF migrate_vms # <<>>
          THEN \E vms \in Orderings(Elems(configured \o migrate_vms)) :
                   rc_params' = Put(rc_params, "vms", Join(vms))
          ELSE UNCHANGED rc_params
    /\ rc_keys' = DOMAIN rc_env
    /\ rc_pc' = "loop"
    /\ UNCHANGED <<rc_params0, rc_env, rc_env0, rc_dropped>>
    /\ UNCHANGED notRc

\* one iteration of the loop: a VM whose name is not requested is destroyed
\* and then deleted; vm.destroy() is not guarded and may raise
ReconcileKey ==
    /\ rc_pc = "loop"
    /\ \E key \in rc_keys :
         LET vm == rc_env[key]
             requested_vms == Split(Get(rc_params, "vms", ""))
         IN IF IsBaseVM(vm) /\ ~InList(vm.name, requested_vms)
            THEN \E destroyed \in BOOLEAN :
                   IF destroyed
                   THEN /\ rc_env' = [k \in DOMAIN rc_env \ {key} |-> rc_env[k]]
                        /\ rc_dropped' = rc_dropped \cup
                             {[key |-> key,
                               vm |-> [vm EXCEPT !.state = "dead"]]}
                        /\ rc_keys' = rc_keys \ {key}
                        /\ UNCHANGED rc_pc
                   ELSE /\ rc_pc' = "raised"
                        /\ UNCHANGED <<rc_env, rc_dropped, rc_keys>>
            ELSE /\ rc_keys' = rc_keys \ {key}
                 /\ UNCHANGED <<rc_env, rc_dropped, rc_pc>>
    /\ UNCHANGED <<rc_params, rc_params0, rc_env0>>
    /\ UNCHANGED notRc

\* every key was visited
ReconcileDone ==
    /\ rc_pc = "loop"
    /\ rc_keys = {}
    /\ rc_pc' = "done"
    /\ UNCHANGED <<rc_params, rc_params0, rc_env, rc_env0, rc_keys, rc_dropped>>
    /\ UNCHANGED notRc

NextRc ==
    \/ MergeMigrateVms
    \/ ReconcileKey
    \/ ReconcileDone

SpecRc == InitRc /\ [][NextRc]_vars

(***************************************************************************)
(* preprocess_vm: whether the VM is started, and how                       *)
(***************************************************************************)

\* at most this many of the optional keys are in the params of the VM
MaxStartParams == 3

StartOptions ==
    [vm_type |-> {"qemu", "libvirt", "v2v"}, migration_mode |-> {"tcp", ""},
     start_vm |-> {"yes", "no"}, check_vm_needs_restart |-> {"no"},
     type |-> {"unattended_install"}, kill_vm_before_test |-> {"yes"}]

RestartCheckedForAnyType(p) ==
    Get(p, "check_vm_needs_restart", "yes") = "yes"

\* preprocess_vm: vm.needs_restart() is consulted for the VM types other
\* than libvirt and v2v, unless check_vm_needs_restart says otherwise
RestartChecked(p) ==
    /\ Get(p, "vm_type", None) \notin {"libvirt", "v2v"}
    /\ Get(p, "check_vm_needs_restart", "yes") = "yes"

\* preprocess_vm from "start_vm = False" on: the decision and the operations
\* performed on the VM, each of which may raise (failing is the operation
\* that raises, None if none does)
StartVm(p, alive, needs_restart, failing) ==
    LET vm_type == Get(p, "vm_type", None)
        requested == Get(p, "migration_mode", "") = ""
                        /\ Get(p, "start_vm", None) = "yes"
        restart == requested /\ RestartChecked(p) /\ needs_restart
        start_vm == \/ Get(p, "migration_mode", "") # ""
                    \/ requested /\ ~alive
                    \/ restart
        update_virtnet == restart
        decide_ops == IF restart THEN <<"needs_restart", "old_vm.destroy">>
                      ELSE IF requested /\ RestartChecked(p)
                           THEN <<"needs_restart">>
                      ELSE <<>>
        start_ops ==
            IF start_vm
            THEN IF vm_type = "libvirt"
                    /\ Get(p, "type", None) # "unattended_install"
                 THEN <<"vm.start">>
                 ELSE IF vm_type = "v2v" THEN <<"vm.start">>
                 ELSE (IF update_virtnet THEN <<"update_vm_id", "VirtNet">>
                       ELSE <<>>) \o <<"vm.create">>
            ELSE IF ~alive THEN <<"update_params">>
            ELSE IF /\ Get(p, "kill_vm_before_test", None) = "yes"
                    /\ Get(p, "start_vm", None) = "no"
                 THEN <<"old_vm.destroy">>
                 ELSE <<"create_serial_console">>
        all == decide_ops \o start_ops
        stop == IF \E k \in 1..Len(all) : all[k] = failing
                THEN CHOOSE k \in 1..Len(all) :
                        /\ all[k] = failing
                        /\ \A j \in 1..(k - 1) : all[j] # failing
                ELSE 0
    IN  [start_vm |-> start_vm,
         ops |-> IF stop = 0 THEN all ELSE SubSeq(all, 1, stop),
         result |-> IF stop = 0 THEN "done" ELSE "raised"]

InitSv ==
    /\ sv_params \in BoundedDicts(StartOptions, MaxStartParams)
    /\ sv_exists \in BOOLEAN
    /\ sv_alive \in BOOLEAN
    /\ sv_needs_restart \in BOOLEAN
    /\ sv_start = FALSE
    /\ sv_ops = <<>>
    /\ sv_pc = "call"
    /\ RestSched
    /\ RestImg
    /\ RestDrv
    /\ RestPoll
    /\ RestVm
    /\ RestSd
    /\ RestVr
    /\ RestProc
    /\ RestRc
    /\ RestPv

\* preprocess_vm up to the start of the VM: a libvirt VM that does not exist
\* outside of an install test is an error, else the VM is started or not
PreprocessVmStart ==
    /\ sv_pc = "call"
    /\ IF /\ Get(sv_params, "vm_type", None) = "libvirt"
          /\ ~sv_exists
          /\ Get(sv_params, "type", None)
                \notin {"unattended_install", "svirt_install"}
       THEN /\ sv_pc' = "raised"
            /\ UNCHANGED <<sv_start, sv_ops>>
       ELSE \E failing \in {None, "old_vm.destroy", "vm.create", "vm.start"} :
              LET r == StartVm(sv_params, sv_alive, sv_needs_restart, failing)
              IN  /\ sv_start' = r.start_vm
                  /\ sv_ops' = r.ops
                  /\ sv_pc' = r.result
    /\ UNCHANGED <<sv_params, sv_exists, sv_alive, sv_needs_restart, notSv>>

NextSv == PreprocessVmStart

SpecSv == InitSv /\ [][NextSv]_vars

(***************************************************************************)
(* postprocess_vm: the remote sessions and the kill of one VM              *)
(***************************************************************************)

\* a VM has at most this many remote sessions
MaxSessions == 2

\* the lists vm.remote_sessions can hold
SessionLists ==
    {q \in UNION {[1..n -> 1..MaxSessions] : n \in 0..MaxSessions} :
        \A i, j \in DOMAIN q : i # j => q[i] # q[j]}

\* at most this many of the optional keys of postprocess_vm are in a
\* configuration
MaxPostVmParams == 3

PostVmOptions ==
    [kill_vm |-> {"yes", "no"}, kill_vm_gracefully |-> {"yes", "no"},
     kill_vm_timeout |-> {"0", "0.0", "30"}]

\* float(str) for the strings that occur
Float(str) ==
    CASE str = "30" -> 30
      [] OTHER -> 0

\* list.remove(s)
Remove(list, s) == SelectSeq(list, LAMBDA x : x # s)

\* the kill of a VM that is destroyed without being waited for
KillStepsWithoutWait(p) ==
    IF Get(p, "kill_vm", None) = "yes"
    THEN <<[op |-> "destroy",
            arg |-> Get(p, "kill_vm_gracefully", None) = "yes"]>>
    ELSE <<>>

\* postprocess_vm: the kill_vm block: with a kill_vm_timeout other than
\* zero the death of the VM is waited for, then the VM is destroyed
KillSteps(p) ==
    IF Get(p, "kill_vm", None) = "yes"
    THEN LET kill_vm_timeout == Float(Get(p, "kill_vm_timeout", "0"))
         IN  (IF kill_vm_timeout # 0
              THEN <<[op |-> "wait_for", arg |-> kill_vm_timeout]>>
              ELSE <<>>)
             \o <<[op |-> "destroy",
                   arg |-> Get(p, "kill_vm_gracefully", None) = "yes"]>>
    ELSE <<>>

InitPv ==
    /\ pv_params \in BoundedDicts(PostVmOptions, MaxPostVmParams)
    /\ pv_registered \in BOOLEAN
    /\ pv_sessions0 \in SessionLists
    /\ pv_sessions = pv_sessions0
    /\ pv_todo = <<>>
    /\ pv_ops = <<>>
    /\ pv_pc = "call"
    /\ RestSched
    /\ RestImg
    /\ RestDrv
    /\ RestPoll
    /\ RestVm
    /\ RestSd
    /\ RestVr
    /\ RestProc
    /\ RestRc
    /\ RestSv

\* postprocess_vm: vm = env.get_vm(name); if not vm: return; the loop that
\* follows runs over a copy of vm.remote_sessions
PostprocessVmCalled ==
    /\ pv_pc = "call"
    /\ IF pv_registered
       THEN /\ pv_todo' = pv_sessions
            /\ pv_pc' = "sessions"
       ELSE /\ pv_pc' = "returned"
            /\ UNCHANGED pv_todo
    /\ UNCHANGED <<pv_params, pv_registered, pv_sessions0, pv_sessions, pv_ops>>
    /\ UNCHANGED notPv

\* postprocess_vm: s.close(); vm.remote_sessions.remove(s), with every
\* exception of the two passed over
CloseSession ==
    /\ pv_pc = "sessions"
    /\ pv_todo # <<>>
    /\ \E closed \in BOOLEAN :
          /\ pv_ops' = Append(pv_ops, [op |-> "close", arg |-> Head(pv_todo)])
          /\ pv_sessions' = IF closed THEN Remove(pv_sessions, Head(pv_todo))
                                      ELSE pv_sessions
    /\ pv_todo' = Tail(pv_todo)
    /\ UNCHANGED <<pv_params, pv_registered, pv_sessions0, pv_pc>>
    /\ UNCHANGED notPv

\* postprocess_vm: the kill_vm block, which ends the function; vm.destroy
\* may raise
KillVm ==
    /\ pv_pc = "sessions"
    /\ pv_todo = <<>>
    /\ pv_ops' = pv_ops \o KillSteps(pv_params)
    /\ \E destroyed \in BOOLEAN :
          pv_pc' = IF KillSteps(pv_params) # <<>> /\ ~destroyed
                   THEN "raised" ELSE "returned"
    /\ UNCHANGED <<pv_params, pv_registered, pv_sessions0, pv_sessions, pv_todo>>
    /\ UNCHANGED notPv

NextPv ==
    \/ PostprocessVmCalled
    \/ CloseSession
    \/ KillVm

SpecPv == InitPv /\ [][NextPv]_vars

(***************************************************************************)
(* Properties of the image lifecycle actions                               *)
(***************************************************************************)

\* the image of the call is outside the declared clone set under
\* clone_master=yes
OutsideCloneSet ==
    /\ img_func = "post"
    /\ "clone_master" \in DOMAIN img_params
    /\ img_params["clone_master"] = "yes"
    /\ "master_images_clone" \in DOMAIN img_params
    /\ \A k \in 1..Len(img_params["master_images_clone"]) :
          img_params["master_images_clone"][k] # img_name

C5_CreateDecision ==
    (img_func = "pre" /\ img_pc # "call") =>
        LET force == /\ "force_create_image" \in DOMAIN img_params
                     /\ img_params["force_create_image"] = "yes"
            wanted == /\ "create_image" \in DOMAIN img_params
                      /\ img_params["create_image"] = "yes"
            created == \E k \in 1..Len(img_ops) : img_ops[k] = "create"
            removed == \E k \in 1..Len(img_ops) : img_ops[k] = "file_remove"
        IN  /\ img_pc = "returned"
            /\ force => (created /\ img_exists)
            /\ ~force => (created <=> (wanted /\ ~img_existed))
            /\ (~force /\ ~wanted /\ img_existed) =>
                  (~created /\ ~removed /\ img_exists)

\* C5 witness: a forced creation over an existing file with create_image=no:
\* the old file was removed and the image created.
C5_Witness ==
    /\ img_func = "pre"
    /\ img_pc = "returned"
    /\ "force_create_image" \in DOMAIN img_params
    /\ img_params["force_create_image"] = "yes"
    /\ "create_image" \in DOMAIN img_params
    /\ img_params["create_image"] = "no"
    /\ img_existed
    /\ \E k \in 1..Len(img_ops) : img_ops[k] = "file_remove"
    /\ img_ops[Len(img_ops)] = "create"

(***************************************************************************)
(* Properties of the orchestration driver                                  *)
(***************************************************************************)

\* the steps of postprocess in program order
PostOrder ==
    <<"dispatch", "screendump_join", "harvest", "register_join",
      "kill_unresponsive", "kill_deleted", "stop_tcpdump", "close_monitors",
      "hp", "thp", "ksm", "egd", "polkit", "kernel", "post_command", "iscsi",
      "lvm", "nfs", "pb", "final">>

StepIndex(s) == CHOOSE i \in 1..Len(PostOrder) : PostOrder[i] = s

\* the steps that follow step s, the host dmesg verification included
LaterSteps(s) ==
    {PostOrder[i] : i \in (StepIndex(s) + 1)..Len(PostOrder)}
        \cup {"verify_host_dmesg"}

\* postprocess is running or has just ended
InPost ==
    drv_pc \in {PostOrder[i] : i \in 1..Len(PostOrder)}
                  \cup {"post_done", "post_raised"}

\* postprocess got to its final step
AtEnd ==
    \/ drv_pc \in {"final", "post_done"}
    \/ drv_pc = "post_raised" /\ pp_exc.at = "final"

\* the kernel restoration step lies behind and did not raise
PastKernelStep ==
    \/ drv_pc \in {"post_command", "iscsi", "lvm", "nfs", "pb", "final",
                   "post_done"}
    \/ drv_pc = "post_raised" /\ pp_exc.at = "final"

\* this test patched the command line, nothing else touched the boot
\* configuration, restoration is on and its step lies behind
RoundTripCase ==
    /\ patched
    /\ ~intervened
    /\ ("restore_kernel_cmd" \in DOMAIN params
            => params["restore_kernel_cmd"] = "yes")
    /\ PastKernelStep

\* C6: a successful kernel command line patch followed by the restoration of
\* postprocess (restore_kernel_cmd at its default yes, no intervening change
\* to the boot configuration) leaves the boot configuration identical to
\* what it was before the patch and clears kernel_modified
C6_KernelRoundTrip ==
    RoundTripCase => grub = grub_prepatch /\ ~kernel_modified

C6_Witness ==
    /\ RoundTripCase
    /\ "kernel" \in cleaned
    /\ grub = grub_prepatch
    /\ grub \in InitGrubs
    /\ kernel_cmdline \in {grub[i] : i \in 1..Len(grub)}
    /\ ~kernel_modified

\* the steps of postprocess that are wrapped in try/except Exception
BestEffortSteps ==
    {"dispatch", "hp", "thp", "ksm", "egd", "polkit", "post_command",
     "iscsi", "lvm", "nfs", "pb"}

\* what a wrapped step appends to err when it fails
StepLabel(s) ==
    CASE s = "dispatch" -> "Postprocess"
      [] s = "hp" -> "HP cleanup"
      [] s = "thp" -> "THP cleanup"
      [] s = "ksm" -> "KSM cleanup"
      [] s = "egd" -> "egd.pl cleanup"
      [] s = "polkit" -> "Polkit cleanup"
      [] s = "post_command" -> "Postprocess command"
      [] s = "iscsi" -> "iscsi cleanup"
      [] s = "lvm" -> "LVM cleanup"
      [] s = "nfs" -> "nfs cleanup"
      [] s = "pb" -> "PB cleanup"

\* whether the configuration asks for a wrapped step
Configured(k, v) == k \in DOMAIN params /\ params[k] = v

StepApplies(s) ==
    CASE s = "dispatch" -> TRUE
      [] s = "hp" -> Configured("setup_hugepages", "yes")
      [] s = "thp" -> Configured("setup_thp", "yes")
      [] s = "ksm" -> Configured("setup_ksm", "yes")
      [] s = "egd" -> Configured("setup_egd", "yes") /\ Configured("kill_vm", "yes")
      [] s = "polkit" -> Configured("vm_type", "libvirt")
                             /\ Configured("setup_libvirt_polkit", "yes")
      [] s = "post_command" -> "post_command" \in DOMAIN params
      [] s = "iscsi" -> Configured("storage_type", "iscsi")
      [] s = "lvm" -> Configured("storage_type", "lvm")
      [] s = "nfs" -> Configured("storage_type", "nfs")
      [] s = "pb" -> \/ Configured("netdst", "private")
                     \/ \E k \in 1..Len(Split(Get(params, "nics", ""))) :
                           Configured("netdst_" \o Split(Get(params, "nics", ""))[k],
                                      "private")

HardSteps == {"kill_unresponsive", "kill_deleted", "kernel"}

\* C8 as stated: the failure of every postprocess step is collected, so
\* postprocess raises only at its final step and reports there the errors
\* it has collected
C8_EveryFailureCollected ==
    drv_pc = "post_raised"
        => /\ pp_exc.at = "final"
           /\ err # <<>> => pp_exc.msgs = err

\* C8 amended: a failure of the kernel command line restoration, or of a VM
\* destroy in the unresponsive VM, deleted disk or restoration steps, is
\* raised at the step: no later step (post command, storage cleanup, bridge
\* cleanup) runs and the errors collected so far are not reported; only
\* these steps raise before the final step
C8_HardFailuresPropagate ==
    /\ (drv_pc = "post_raised" /\ pp_exc.at # "final")
          => /\ pp_exc.at \in HardSteps
             /\ pp_exc.kind \in {"VMDestroyError", "TestError"}
             /\ pp_exc.msgs = <<>>
             /\ cleaned \cap LaterSteps(pp_exc.at) = {}
    /\ (InPost /\ "kernel" \in cleaned /\ kernel_modified
            /\ KernelLines(grub) = {})
          => drv_pc = "post_raised" /\ pp_exc.at = "kernel"

C8_Witness ==
    /\ drv_pc = "post_raised"
    /\ pp_exc = [at |-> "kernel", kind |-> "TestError", msgs |-> <<>>]
    /\ err = <<"HP cleanup">>
    /\ "post_command" \in DOMAIN params
    /\ "post_command" \notin cleaned

(***************************************************************************)
(* Properties of the background pollers                                    *)
(***************************************************************************)

\* C9: once postprocess has set the termination event of a poller, that
\* poller eventually leaves its loop
C9_CancelledPollerLeaves ==
    \A s \in Slots : (pollers[s].signalled /\ Running(s)) ~> ~Running(s)

\* a poller that leaves through the set-flag path nulls the module-level
\* reference, and a poller that finds the reference None leaves its loop
PollerExitPaths ==
    [][\A s \in Slots :
          /\ (pollers[s].pc = "assign_none" /\ pollers'[s].pc = "exited")
                => termination_event' = None
          /\ (pollers[s].pc \in {"check_none", "check_set", "wait"}
                  /\ pollers'[s].pc # pollers[s].pc
                  /\ termination_event = None)
                => ~Running(s)']_vars

\* a poller whose event was set is running next to the driver's next test,
\* whose fresh event is unset
StalePollerState ==
    \E s \in Slots :
        /\ pollers[s].signalled
        /\ Running(s)
        /\ termination_event = "unset"
        /\ poller_thread # s

(***************************************************************************)
(* Properties of preprocess_vm                                             *)
(***************************************************************************)

\* the serial output was read and the line fails the configured options
SerialMismatch ==
    /\ "check_kernel_cmd_line_from_serial" \in DOMAIN vm_params
    /\ vm_params["check_kernel_cmd_line_from_serial"] = "yes"
    /\ vm_state = "running"
    /\ serial_console
    /\ ~serial_output.timeout
    /\ \/ /\ "kernel_options_exist" \in DOMAIN vm_params
          /\ \E i \in 1..Len(Words(vm_params["kernel_options_exist"])) :
                ~InLine(Words(vm_params["kernel_options_exist"])[i],
                        serial_output.line)
       \/ /\ "kernel_options_not_exist" \in DOMAIN vm_params
          /\ \E i \in 1..Len(Words(vm_params["kernel_options_not_exist"])) :
                InLine(Words(vm_params["kernel_options_not_exist"])[i],
                       serial_output.line)

\* C10: with check_kernel_cmd_line_from_serial=yes, when the serial output
\* is read and an option of kernel_options_exist is missing from the kernel
\* command line or an option of kernel_options_not_exist is present in it,
\* preprocess_vm fails with a hard error that reaches the caller
C10_MismatchIsHardError ==
    (vm_pc = "done" /\ SerialMismatch) => vm_raised = "TestError"

(***************************************************************************)
(* Properties of the host tuning and bridge steps                          *)
(***************************************************************************)

\* the host tuning steps
TuningSteps == {"hp", "thp", "ksm", "egd", "polkit"}

\* postprocess has gone through its host tuning cleanups
PastTuning ==
    \/ drv_pc \in {"kernel", "post_command", "iscsi", "lvm", "nfs", "pb",
                   "final", "post_done"}
    \/ drv_pc = "post_raised" /\ pp_exc.at \in {"kernel", "final"}

C12_BridgeCleanupIffSetUp ==
    [][drv_pc = "pb" => (("pb" \in cleaned') <=> bridge)]_vars

\* a bridge set up through the per-NIC key alone has been left behind
BridgeLeftBehind ==
    /\ drv_pc = "post_done"
    /\ bridge
    /\ "pb" \notin cleaned
    /\ "netdst" \notin DOMAIN params

(***************************************************************************)
(* Properties of the screendump poller                                     *)
(***************************************************************************)

\* C13: whenever the inactivity signal fires for a VM (debug log under the
\* policy log, queued VMScreenInactiveError under the policy error), the
\* inactivity clock of that VM is reset, so that the signal fires once per
\* breach of the treshold
C13_SignalResetsClock ==
    sd_event.signal # None => sd_inactivity[sd_event.vm] = sd_now

\* under the policy log the signal has fired and the clock still runs
SignalWithoutReset ==
    /\ sd_watcher = "log"
    /\ sd_event.signal = "log"
    /\ sd_now - sd_inactivity[sd_event.vm] > sd_treshold

\* C15 as stated: a frame whose fingerprint is in the cache is hard-linked
\* and leaves the frame counter of its VM where it was
C15_DuplicateKeepsCounter ==
    sd_event.op = "link" => sd_counter[sd_event.vm] = sd_event.before

\* C15 amended: a frame whose fingerprint is in the cache is not encoded; it
\* takes the next frame slot of its VM, which is hard-linked to the file
\* cached for the fingerprint, and the frame counter advances by one, as it
\* does for a distinct frame that was encoded
C15_DuplicateLinkedInNextSlot ==
    /\ sd_event.op = "link"
          => /\ sd_event.hash \in DOMAIN sd_cache
             /\ sd_event.src = sd_cache[sd_event.hash]
             /\ sd_event.dst = [vm |-> sd_event.vm, n |-> sd_event.before + 1]
             /\ sd_counter[sd_event.vm] = sd_event.before + 1
    /\ sd_event.op = "encode"
          => /\ sd_cache[sd_event.hash] = sd_event.dst
             /\ sd_counter[sd_event.vm] = sd_event.before + 1

\* two consecutive identical frames of one VM: the first was encoded into
\* slot 1, the second is linked to it from slot 2
C15_Witness ==
    /\ sd_event.op = "link"
    /\ sd_event.src = [vm |-> sd_event.vm, n |-> 1]
    /\ sd_event.dst = [vm |-> sd_event.vm, n |-> 2]
    /\ sd_counter[sd_event.vm] = 2

(***************************************************************************)
(* Properties of the register poller                                       *)
(***************************************************************************)

\* the VM missed at least three rounds in a row and has answered since
RecoveredAfterThree(v) ==
    /\ v \in DOMAIN vr_hist
    /\ vr_hist[v].last_streak >= 3
    /\ vr_hist[v].streak = 0

\* C14 as stated: for a VM that was not alive for three rounds in a row and
\* then alive again, the warning was logged once for the streak and the
\* summary of the quitting thread reports a nonzero miss count of that VM
C14_SummaryReportsRecoveredVm ==
    vr_pc = "quit" =>
        \A v \in VrVms :
            RecoveredAfterThree(v) =>
                /\ vr_hist[v].warned = 1
                /\ \E e \in vr_summary : e[1] = v /\ e[2] > 0

\* C14 amended: the warning is logged once per streak; when the VM answers
\* again the "alive now" message gives the length of the streak and the
\* miss count is reset, so the summary of the quitting thread names exactly
\* the VMs whose streak is still under way, with its length so far
C14_SummaryReportsOpenStreaks ==
    /\ \A v \in DOMAIN vr_hist :
          /\ (vr_hist[v].streak > 0 \/ vr_hist[v].last_streak > 0)
                => vr_hist[v].warned = 1
          /\ vr_hist[v].streak = 0
                => vr_hist[v].recovered = vr_hist[v].last_streak
    /\ vr_pc = "quit"
          => vr_summary = {<<v, vr_hist[v].streak>> :
                              v \in {w \in DOMAIN vr_hist : vr_hist[w].streak > 0}}

C14_Witness ==
    /\ vr_pc = "quit"
    /\ RecoveredAfterThree("vm1")
    /\ vr_hist["vm1"] = [warned |-> 1, streak |-> 0, last_streak |-> 3,
                         recovered |-> 3]
    /\ vr_summary = {}

(***************************************************************************)
(* Properties of process                                                   *)
(***************************************************************************)

\* the positions of the calls of a function in the call log
CallsOf(func) == {i \in 1..Len(proc_calls) : proc_calls[i].func = func}

\* the VMs of the configuration and the images of each
ConfiguredVms ==
    {Split(proc_params["vms"])[i] : i \in 1..Len(Split(proc_params["vms"]))}

ConfiguredImages(vm) ==
    LET str == IF ("images_" \o vm) \in DOMAIN proc_params
               THEN proc_params["images_" \o vm] ELSE proc_params["images"]
    IN  {Split(str)[i] : i \in 1..Len(Split(str))}

\* C16: preprocess dispatches preprocess_image for every image before any
\* preprocess_vm call, and postprocess dispatches postprocess_vm for every
\* VM before any postprocess_image call
C16_ImagesThenVmsAndBack ==
    /\ \A i \in CallsOf("preprocess_vm") :
          /\ \A j \in CallsOf("preprocess_image") : j < i
          /\ "skip_image_processing" \notin DOMAIN proc_params
                => \A vm \in ConfiguredVms : \A image \in ConfiguredImages(vm) :
                      \E j \in CallsOf("preprocess_image") :
                         /\ j < i
                         /\ proc_calls[j].vm = vm
                         /\ proc_calls[j].image = image
    /\ \A i \in CallsOf("postprocess_image") :
          /\ \A j \in CallsOf("postprocess_vm") : j < i
          /\ "vms" \in DOMAIN proc_params
                => \A vm \in ConfiguredVms :
                      \E j \in CallsOf("postprocess_vm") :
                         j < i /\ proc_calls[j].vm = vm

C16_Witness ==
    /\ proc_func = "post"
    /\ proc_pc = "returned"
    /\ "vms" \in DOMAIN proc_params
    /\ proc_params["vms"] = "vm1 vm2"
    /\ Cardinality(CallsOf("preprocess_image")) = 3
    /\ Cardinality(CallsOf("preprocess_vm")) = 2
    /\ Cardinality(CallsOf("postprocess_vm")) = 2
    /\ Cardinality(CallsOf("postprocess_image")) = 3

\* create_image is yes, no image file exists, and nothing asks for images
\* to be skipped or removed
CreateScenario ==
    /\ "create_image" \in DOMAIN proc_params
    /\ proc_params["create_image"] = "yes"
    /\ "skip_image_processing" \notin DOMAIN proc_params
    /\ "remove_image" \notin DOMAIN proc_params
    /\ proc_files0 = {}

\* C18: with images "a b c", create_image=yes and no existing image files,
\* preprocess creates the files of a, b and c, each exactly once, and a
\* following postprocess without removal flags leaves all three present
C18_CreatedOnceAndKept ==
    (/\ CreateScenario
     /\ \/ proc_func = "pre" /\ proc_pc = "returned"
        \/ proc_func = "post")
        => /\ proc_files = {"a", "b", "c"}
           /\ \A image \in {"a", "b", "c"} : proc_created[image] = 1

C18_Witness ==
    /\ proc_params = [images |-> "a b c", create_image |-> "yes"]
    /\ proc_files0 = {}
    /\ proc_func = "post"
    /\ proc_pc = "returned"
    /\ proc_files = {"a", "b", "c"}
    /\ Len(proc_calls) = 6

(***************************************************************************)
(* Properties of the VM-set reconcile step of preprocess                   *)
(***************************************************************************)

\* the names in the configured vms merged with migrate_vms
RequestedNames ==
    Elems(Split(Get(rc_params0, "vms", "")))
    \cup Elems(Split(Get(rc_params0, "migrate_vms", "")))

\* C17: when the reconcile step of preprocess has completed, every VM left
\* in the environment has a requested name (vms merged with migrate_vms),
\* every entry that left the environment was a VM that was not requested and
\* was destroyed before it was deleted, and the entries that are not VMs are
\* as they were.
C17_OnlyRequestedVmsLeft ==
    /\ \A d \in rc_dropped : d.vm.state = "dead"
    /\ rc_pc = "done" =>
         /\ \A k \in DOMAIN rc_env :
              rc_env[k].class = "BaseVM" => rc_env[k].name \in RequestedNames
         /\ \A k \in DOMAIN rc_env0 \ DOMAIN rc_env :
              /\ rc_env0[k].class = "BaseVM"
              /\ rc_env0[k].name \notin RequestedNames
              /\ \E d \in rc_dropped : d.key = k /\ d.vm.state = "dead"
         /\ \A k \in DOMAIN rc_env0 :
              rc_env0[k].class # "BaseVM" =>
                  k \in DOMAIN rc_env /\ rc_env[k] = rc_env0[k]

\* the step completed with a migrate_vms VM kept, another VM destroyed and
\* deleted, and the tcpdump entry present
C17_Witness ==
    /\ rc_pc = "done"
    /\ Get(rc_params0, "vms", "") = "vm1"
    /\ Get(rc_params0, "migrate_vms", "") = "vm2"
    /\ "vm__vm2" \in DOMAIN rc_env
    /\ "tcpdump" \in DOMAIN rc_env
    /\ \E d \in rc_dropped : d.key = "vm__vm3"

(***************************************************************************)
(* Properties of the end of postprocess                                    *)
(***************************************************************************)

\* postprocess went through its final step
FinalStepTaken ==
    \/ drv_pc = "post_done"
    \/ drv_pc = "post_raised" /\ pp_exc.at = "final"

\* C19: at the end of postprocess, collected failures are raised as one
\* VMError carrying all of them and the host kernel log is not verified;
\* with no collected failure no VMError is raised and the host kernel log is
\* verified iff verify_host_dmesg is "yes", which is its default.
C19_AggregateOrVerifyDmesg ==
    FinalStepTaken =>
        IF err # <<>>
        THEN /\ drv_pc = "post_raised"
             /\ pp_exc = [at |-> "final", kind |-> "VMError", msgs |-> err]
             /\ "verify_host_dmesg" \notin cleaned
        ELSE /\ pp_exc.kind # "VMError"
             /\ "verify_host_dmesg" \in cleaned
                    <=> Get(params, "verify_host_dmesg", "yes") = "yes"

\* several failures were collected and raised together, and the host kernel
\* log, which the configuration asks to verify, was left alone
C19_Witness ==
    /\ drv_pc = "post_raised"
    /\ pp_exc.at = "final"
    /\ pp_exc.kind = "VMError"
    /\ Len(pp_exc.msgs) >= 2
    /\ "verify_host_dmesg" \notin DOMAIN params
    /\ "verify_host_dmesg" \notin cleaned

(***************************************************************************)
(* Properties of the poller population                                     *)
(***************************************************************************)

\* C20: across any sequence of preprocess and postprocess calls at most one
\* poller of a kind is inside its loop at any time; a poller whose bounded
\* join timed out does not run next to the poller of the next preprocess.
C20_AtMostOnePollerRuns ==
    \A s, q \in Slots : (Running(s) /\ Running(q)) => s = q

\* the poller started by the next preprocess runs next to one that
\* outlived its join, and both read the same termination event
TwoPollersShareEvent ==
    \E s, q \in Slots :
        /\ s # q
        /\ poller_thread = q
        /\ pollers[s].signalled
        /\ Running(s)
        /\ Running(q)
        /\ termination_event = "unset"

\* C21: whenever postprocess finds a poller thread recorded and calls set()
\* on the module-level termination event, that reference is not None: the
\* signalling step never fails on a null reference.
C21_SetNeverOnNone ==
    /\ ~set_failed
    /\ (poll_pc = "test" /\ poller_thread # NoThread) => termination_event # None

\* a poller that outlived its join nulled the event of the next test, whose
\* thread is recorded when postprocess comes to signal it
EventNulledUnderRecordedThread ==
    /\ poll_pc = "test"
    /\ poller_thread # NoThread
    /\ Running(poller_thread)
    /\ termination_event = None
    /\ \E s \in Slots : s # poller_thread /\ pollers[s].signalled
                        /\ pollers[s].pc = "exited"

(***************************************************************************)
(* Properties of the saved kernel command line                             *)
(***************************************************************************)

\* C22: across any sequence of preprocess and postprocess calls, while
\* kernel_modified is true the saved kernel_cmdline is the boot configuration
\* line as it was before the first unrestored patch: it is taken from the
\* boot configuration when a patch becomes pending and is not replaced while
\* the patch stays pending.
C22_SavedCmdlineIsOriginal ==
    [][/\ (~kernel_modified /\ kernel_modified')
            => kernel_cmdline' = FirstKernelLine(grub)
       /\ (kernel_modified /\ kernel_modified')
            => kernel_cmdline' = kernel_cmdline]_vars

\* a patch is pending and the saved line is the line that the pending patch
\* itself wrote
SavedCmdlineIsPatchedLine ==
    /\ kernel_modified
    /\ drv_pc = "pre_dispatch"
    /\ ~patched
    /\ kernel_cmdline = FirstKernelLine(grub)

(***************************************************************************)
(* Properties of postprocess_image                                         *)
(***************************************************************************)

\* the positions of an operation in the operations performed by the call
PositionsOf(op) == {k \in 1..Len(img_ops) : img_ops[k] = op}

\* C23: postprocess_image performs the restore_image_after_testing restore
\* only if no restore was performed earlier in the same invocation, the
\* restore of restore_image_on_check_error included: at most one restore
\* happens per invocation.
C23_AtMostOneRestore ==
    (img_func = "post" /\ img_pc # "call")
        => Cardinality(PositionsOf("restore")) <= 1

\* a check failure downgraded to a warning was followed by the restore of
\* restore_image_on_check_error and then by that of
\* restore_image_after_testing
RestoredTwice ==
    /\ img_func = "post"
    /\ img_pc = "returned"
    /\ img_chk = "leak"
    /\ Get(img_params, "restore_image_on_check_error", "no") = "yes"
    /\ Get(img_params, "restore_image_after_testing", "no") = "yes"
    /\ \E k \in 1..(Len(img_ops) - 2) :
          /\ img_ops[k] = "check"
          /\ img_ops[k + 1] = "restore"
          /\ img_ops[k + 2] = "restore"

\* the operations the call performed after the image check
AfterCheck ==
    LET k == CHOOSE i \in PositionsOf("check") : TRUE
    IN  SubSeq(img_ops, k + 1, Len(img_ops))

\* the damage control the configuration asks for on a check failure
DamageControl ==
    (IF Get(img_params, "restore_image_on_check_error", "no") = "yes"
     THEN <<"restore">> ELSE <<>>)
    \o (IF /\ Get(img_params, "remove_image_on_check_error", "no") = "yes"
           /\ "master_images_clone" \in DOMAIN img_params
           /\ InList(img_name, img_params["master_images_clone"])
        THEN <<"remove">> ELSE <<>>)

\* the steps of postprocess_image that follow the check branch
RemainingSteps ==
    (IF Get(img_params, "restore_image_after_testing", "no") = "yes"
     THEN <<"restore">> ELSE <<>>)
    \o (IF /\ Get(img_params, "remove_image", None) = "yes"
           /\ \/ "clone_master" \notin DOMAIN img_params
              \/ /\ img_params["clone_master"] = "yes"
                 /\ "master_images_clone" \in DOMAIN img_params
                 /\ InList(img_name, img_params["master_images_clone"])
        THEN <<"remove">> ELSE <<>>)

\* C24: when the image check fails, a restore is attempted iff
\* restore_image_on_check_error is yes and the image is removed iff
\* remove_image_on_check_error is yes and the image is in
\* master_images_clone; then the failure is raised again, unless
\* skip_cluster_leak_warn is yes and the failure is a 'Leaked clusters' one,
\* in which case postprocess_image goes on with its remaining steps.
C24_CheckFailureHandling ==
    (img_func = "post" /\ img_pc # "call" /\ img_chk \in {"leak", "error"})
        => IF /\ Get(img_params, "skip_cluster_leak_warn", None) = "yes"
              /\ img_chk = "leak"
           THEN AfterCheck = DamageControl \o RemainingSteps
           ELSE /\ AfterCheck = DamageControl
                /\ img_pc = "raised"

\* a leak was downgraded after damage control that restored and removed the
\* image, and the call went on
C24_Witness ==
    /\ img_func = "post"
    /\ img_pc = "returned"
    /\ img_chk = "leak"
    /\ Get(img_params, "skip_cluster_leak_warn", None) = "yes"
    /\ DamageControl = <<"restore", "remove">>
    /\ AfterCheck = <<"restore", "remove">>

(***************************************************************************)
(* Properties of image removal and the VMs using the images                *)
(***************************************************************************)

\* the VMs of the environment one of whose images is marked remove_image=yes
MarkedVms ==
    {v \in DOMAIN proc_env :
        \E i \in 1..Len(Split(Get(ObjectParams(proc_params, v), "images", ""))) :
            Get(ObjectParams(proc_params,
                             Split(Get(ObjectParams(proc_params, v),
                                       "images", ""))[i]),
                "remove_image", None) = "yes"}

\* C25: in postprocess no image is removed while the VM that uses it is
\* still alive: the VM is destroyed before its image is removed.
C25_VmDestroyedBeforeRemoval ==
    [][(proc_func = "post" /\ proc_files' # proc_files)
          => \/ Head(proc_todo).vm = None
             \/ Head(proc_todo).vm \notin DOMAIN proc_env
             \/ proc_env[Head(proc_todo).vm] = "dead"]_vars

\* C25, as the code has it: the dispatch of postprocess removes the images
\* whatever the state of the VM, and the later kill step leaves no VM alive
\* one of whose images is marked remove_image=yes.
C25_VmDestroyedAfterRemoval ==
    proc_pc = "killed" => \A v \in MarkedVms : proc_env[v] = "dead"

\* the image of a VM that nothing killed was removed by the dispatch, and
\* the kill step destroyed the VM afterwards
C25_Witness ==
    /\ proc_pc = "killed"
    /\ proc_params = [vms |-> "vm1", images |-> "a b c", remove_image |-> "yes"]
    /\ proc_files0 = {"a"}
    /\ proc_files = {}
    /\ proc_env = [v \in {"vm1"} |-> "dead"]

(***************************************************************************)
(* Properties of a poller woken from its sleep                             *)
(***************************************************************************)

\* C26: a poller whose termination flag is set while it is in its sleep
\* between two iterations notices the flag and exits without starting
\* another iteration over the VMs.
C26_WokenPollerStartsNoIteration ==
    [][\A s \in Slots :
          (pollers[s].pc = "wait" /\ termination_event = "set"
                /\ pollers'[s].pc # "wait")
             => pollers'[s].pc # "work"]_vars

\* C26, as the code has it: the set flag ends the sleep at once, the poller
\* then starts one more iteration over the VMs, and it leaves its loop only
\* from the check of the flag that follows an iteration.
C26_WokenPollerRunsOneMoreIteration ==
    [][\A s \in Slots :
          /\ (pollers[s].pc = "wait" /\ termination_event = "set"
                 /\ pollers'[s].pc # "wait")
               => pollers'[s].pc = "work" /\ pollers'[s].woke = "set"
          /\ (Running(s) /\ pollers'[s].pc = "exited")
               => pollers[s].pc \in {"check_none", "assign_none"}]_vars

\* a poller that was signalled in its sleep is at work again
C26_Witness ==
    \E s \in Slots :
        /\ pollers[s].signalled
        /\ pollers[s].woke = "set"
        /\ pollers[s].pc = "work"
        /\ termination_event = "set"
        /\ poller_thread = s

(***************************************************************************)
(* Properties of the poller joins and the harvest of postprocess           *)
(***************************************************************************)

HarvestWithRegisterPoller ==
    /\ drv_pc = "harvest"
    /\ "screendump_join" \in cleaned
    /\ vm_register_thread = "VmRegister"

(***************************************************************************)
(* Properties of the workers after a failure                               *)
(***************************************************************************)

\* C28: once a worker has failed and set the shared exit event, every
\* sibling worker starts at most one further image and then stops, leaving
\* the rest of its partition unprocessed: a worker that completes an image
\* with the event set takes no other image, and a stopped worker takes none.
C28_SiblingsStopAfterOneImage ==
    [][\A i \in 1..Len(threads) :
          /\ (exit_event /\ threads'[i].pos # threads[i].pos)
                => /\ threads'[i].pos = threads[i].pos + 1
                   /\ threads'[i].status # "running"
          /\ threads[i].status # "running"
                => threads'[i].pos = threads[i].pos]_vars

\* a worker failed, and a sibling that did not fail stopped with images of
\* its partition left unprocessed
C28_Witness ==
    /\ exit_event
    /\ \E i, j \in 1..Len(threads) :
          /\ i # j
          /\ threads[i].exc_info # NoExc
          /\ threads[j].exc_info = NoExc
          /\ threads[j].status = "dead"
          /\ threads[j].pos >= 2
          /\ threads[j].pos < Len(threads[j].images)

(***************************************************************************)
(* Properties of the kernel command line patch workflow                    *)
(***************************************************************************)

\* preprocess is at the patch workflow, kernel parameters are configured
\* and the boot configuration has a kernel line
AtPatchWorkflow ==
    /\ drv_pc = "pre_kernel"
    /\ KernelAdd(params) # "" \/ KernelRemove(params) # ""
    /\ KernelLines(grub) # {}

\* C29: in the patch workflow the boot configuration is written only if the
\* target line differs from the original, and only with every registered VM
\* destroyed and unregistered; when the target equals the original no VM is
\* destroyed, nothing is written and kernel_modified is left as it was; in
\* both cases check_kernel_cmd_line_from_serial is set to yes.
C29_PatchOnlyOnDifference ==
    [][AtPatchWorkflow =>
          LET original == FirstKernelLine(grub)
              target == KernelConfigSet(original, params)
          IN  /\ grub' # grub => target # original /\ env' = <<>>
              /\ (target # original /\ drv_pc' = "pre_dispatch")
                    => /\ grub' = ReplaceContent(grub, original, target)
                       /\ kernel_modified'
                       /\ env' = <<>>
              /\ target = original
                    => /\ env' = env
                       /\ grub' = grub
                       /\ kernel_modified' = kernel_modified
                       /\ drv_pc' = "pre_dispatch"
              /\ drv_pc' = "pre_dispatch"
                    => Get(params', "check_kernel_cmd_line_from_serial", None)
                           = "yes"]_vars

\* the workflow found registered VMs and a target equal to the line on
\* disk, and left VMs, boot configuration and kernel_modified alone
C29_Witness ==
    /\ drv_pc = "pre_dispatch"
    /\ env # <<>>
    /\ ~patched
    /\ KernelAdd(params) # ""
    /\ Get(params, "check_kernel_cmd_line_from_serial", None) = "yes"
    /\ kernel_cmdline = FirstKernelLine(grub)
    /\ KernelConfigSet(kernel_cmdline, params) = kernel_cmdline

\* an unguarded vm.destroy() failed in the patch workflow: nothing was
\* written
DestroyFailedBeforePatch ==
    /\ drv_pc = "test"
    /\ pp_exc.at = "pre_kernel"
    /\ pp_exc.kind = "VMDestroyError"
    /\ env # <<>>
    /\ ~patched

(***************************************************************************)
(* Properties of the start decision of preprocess_vm                       *)
(***************************************************************************)

\* the decision was taken
Decided == sv_pc = "done" \/ (sv_pc = "raised" /\ sv_ops # <<>>)

\* start_vm=yes without migration_mode, a VM type other than libvirt and
\* v2v, check_vm_needs_restart not disabled, and the VM needs a restart
RestartCase ==
    /\ Get(sv_params, "migration_mode", "") = ""
    /\ Get(sv_params, "start_vm", None) = "yes"
    /\ Get(sv_params, "vm_type", None) \notin {"libvirt", "v2v"}
    /\ Get(sv_params, "check_vm_needs_restart", "yes") # "no"
    /\ sv_needs_restart

\* the operation is among the operations performed, and first at position k
FirstAt(op, k) ==
    /\ k \in 1..Len(sv_ops)
    /\ sv_ops[k] = op
    /\ \A j \in 1..(k - 1) : sv_ops[j] # op

\* C30: preprocess_vm decides to start the VM iff migration_mode is set, or
\* start_vm is yes and the VM is not alive or (VM type other than libvirt
\* and v2v, check_vm_needs_restart not disabled) needs a restart; in the
\* restart case the old handle is destroyed before the VM is created, and
\* the network identity is regenerated before the create.
C30_StartDecision ==
    Decided =>
        /\ sv_start <=>
              \/ Get(sv_params, "migration_mode", "") # ""
              \/ /\ Get(sv_params, "start_vm", None) = "yes"
                 /\ \/ ~sv_alive
                    \/ /\ Get(sv_params, "vm_type", None)
                             \notin {"libvirt", "v2v"}
                       /\ Get(sv_params, "check_vm_needs_restart", "yes") # "no"
                       /\ sv_needs_restart
        /\ RestartCase =>
              /\ sv_start
              /\ \E k \in 1..Len(sv_ops) : FirstAt("old_vm.destroy", k)
              /\ sv_pc = "done" => \E k \in 1..Len(sv_ops) : FirstAt("vm.create", k)
              /\ \A k \in 1..Len(sv_ops) :
                    FirstAt("vm.create", k) =>
                        /\ \E j \in 1..(k - 1) : sv_ops[j] = "old_vm.destroy"
                        /\ \E j \in 1..(k - 1) : sv_ops[j] = "update_vm_id"
                        /\ \E j \in 1..(k - 1) : sv_ops[j] = "VirtNet"

\* a running VM that needs a restart was destroyed, got a new network
\* identity and was created again
C30_Witness ==
    /\ sv_pc = "done"
    /\ RestartCase
    /\ sv_alive
    /\ sv_start
    /\ sv_ops = <<"needs_restart", "old_vm.destroy", "update_vm_id", "VirtNet",
                  "vm.create">>

(***************************************************************************)
(* Properties of the serial check when the output cannot be read           *)
(***************************************************************************)

\* the check is on and the serial output cannot be read
SerialUnreadable ==
    /\ Get(vm_params, "check_kernel_cmd_line_from_serial", None) = "yes"
    /\ \/ vm_state \in {"paused", "dead"}
       \/ ~serial_console
       \/ serial_output.timeout

\* C31: with check_kernel_cmd_line_from_serial=yes, when the serial output
\* cannot be read (VM paused, VM not alive, no serial console, or the read
\* times out), the check is skipped with a logged warning and preprocess_vm
\* returns without raising.
C31_UnreadableSerialIsSkipped ==
    (vm_pc = "done" /\ SerialUnreadable)
        => /\ vm_raised = None
           /\ vm_log # <<>>
           /\ vm_log[1] \in {"warn: skip the check",
                             "warn: skip the check, error is"}

\* the read of the serial console of a running VM timed out, which was
\* logged
C31_Witness ==
    /\ vm_pc = "done"
    /\ Get(vm_params, "check_kernel_cmd_line_from_serial", None) = "yes"
    /\ vm_state = "running"
    /\ serial_console
    /\ serial_output.timeout
    /\ vm_raised = None
    /\ vm_log = <<"warn: skip the check, error is", "ExpectTimeoutError">>

(***************************************************************************)
(* Properties of the pause around the image processing                     *)
(***************************************************************************)

\* process is in its image phase
ImagePhase == proc_pc = "stage" /\ Head(proc_stages) = "images"

\* C32: during the image processing dispatched by process, a VM that is
\* alive and not paused is paused before its images are processed and
\* resumed afterwards, also when the image processing raises; a VM that was
\* paused or dead already is neither paused nor resumed; so the state of
\* every VM after the image phase is its state before it.
C32_PausedAroundImages ==
    /\ [](proc_paused # None
            => /\ ImagePhase
               /\ proc_paused \in DOMAIN proc_env
               /\ proc_env[proc_paused] = "paused")
    /\ [][ImagePhase =>
            /\ DOMAIN proc_env' = DOMAIN proc_env
            \* only a running VM is paused, and it is recorded
            /\ (proc_paused' # proc_paused /\ proc_paused' # None)
                  => /\ proc_paused = None
                     /\ proc_env[proc_paused'] = "running"
                     /\ proc_env'[proc_paused'] = "paused"
            \* the state of a VM changes by that pause and by its resume
            /\ \A v \in DOMAIN proc_env :
                  proc_env'[v] # proc_env[v]
                     => \/ proc_paused' = v /\ proc_env'[v] = "paused"
                        \/ /\ proc_paused = v
                           /\ proc_paused' = None
                           /\ proc_env'[v] = "running"
            \* no image of a running VM is processed
            /\ proc_calls' # proc_calls
                  => \/ Head(proc_todo).vm \notin DOMAIN proc_env
                     \/ proc_env[Head(proc_todo).vm] # "running"
            \* the VM that was paused is resumed when its images are done,
            \* whether they were processed or an image function raised
            /\ (proc_paused # None
                  /\ (proc_pc' = "raised" \/ Head(proc_todo).image = LeaveVm))
                  => /\ proc_paused' = None
                     /\ proc_env'[proc_paused] = "running"]_vars

\* the image function of postprocess raised on an image of a VM that is
\* running again
C32_Witness ==
    /\ proc_func = "post"
    /\ proc_pc = "raised"
    /\ Head(proc_stages) = "images"
    /\ proc_paused = None
    /\ Head(proc_todo).vm = "vm2"
    /\ Head(proc_todo).image \notin {EnterVm, LeaveVm}
    /\ proc_env = [v \in {"vm1", "vm2"} |->
                      IF v = "vm1" THEN "paused" ELSE "running"]

\* C33: the inactivity clock of a VM is reset whenever the frame captured
\* for it differs from the frame captured for it before, and no inactivity
\* signal is raised for that frame, whether or not the fingerprint of the
\* frame has been seen earlier in the loop, by this VM or by another
C33_ChangedScreenResetsClock ==
    (sd_event.shot = "ok" /\ sd_event.prev # None
                          /\ sd_event.prev # sd_event.hash)
        => /\ sd_inactivity[sd_event.vm] = sd_now
           /\ sd_event.signal = None

\* the screen of the VM changed to one whose fingerprint is in the cache,
\* and the frame raised the inactivity signal
ChangedScreenSignalled ==
    /\ sd_event.op = "link"
    /\ sd_event.prev # None
    /\ sd_event.prev # sd_event.hash
    /\ sd_event.signal # None

\* C35: the scratch capture file does not exist at the end of any per-VM
\* iteration, whatever path the iteration took
C35_ScratchFileRemoved ==
    sd_event.vm # None => ~sd_temp

\* a monitor command that failed left the capture file behind
ScratchFileLeft ==
    /\ sd_event.shot = "MonitorError"
    /\ sd_temp

\* the frame numbers of the files written for a VM instance
FrameNumbers(vm) == {f.n : f \in {g \in sd_files : g.vm = vm}}

\* C36: a failed encode leaves the frame counter of the VM at its value
\* before the iteration, and the frame numbers for which a file was written
\* for a VM instance are exactly 1..counter
C36_FramesContiguous ==
    /\ sd_event.op = "encode_failed"
          => sd_counter[sd_event.vm] = sd_event.before
    /\ \A vm \in DOMAIN sd_counter : FrameNumbers(vm) = 1..sd_counter[vm]

\* the frame counter advanced over a frame of which no file was written
FrameNumberWithoutFile ==
    /\ sd_event.op \in {"no_pil", "link"}
    /\ sd_counter[sd_event.vm] = sd_event.before + 1
    /\ sd_counter[sd_event.vm] \notin FrameNumbers(sd_event.vm)

\* the steps of a returned preprocess_image call, the backend preparation
\* and its error log left out
StepsAfterBackend == SelectSeq(img_ops, LAMBDA op :
                        op \notin {"preprocess_image_backend", "log_error"})

\* C34: preprocess_image takes the backup_image_before_testing snapshot, if
\* requested, before any removal or creation; when it creates over an
\* existing file it removes the old file before it calls create; and a
\* backend preparation that failed is logged and changes none of these steps
C34_PreprocessImageOrder ==
    (img_func = "pre" /\ img_pc = "returned")
        => LET backup == Get(img_params, "backup_image_before_testing", "no")
                            = "yes"
               create == \/ Get(img_params, "force_create_image", "no") = "yes"
                         \/ /\ Get(img_params, "create_image", "no") = "yes"
                            /\ ~img_existed
           IN  /\ img_ops[1] = "preprocess_image_backend"
               /\ StepsAfterBackend =
                     (IF backup THEN <<"backup">> ELSE <<>>)
                     \o (IF create /\ img_existed THEN <<"file_remove">>
                                                  ELSE <<>>)
                     \o (IF create THEN <<"create">> ELSE <<>>)

\* the backend could not be prepared, and the image was snapshotted, removed
\* and created anew, in that order
C34_Witness ==
    /\ img_func = "pre"
    /\ img_pc = "returned"
    /\ img_existed
    /\ img_ops = <<"preprocess_image_backend", "log_error", "backup",
                   "file_remove", "create">>

\* C38: a poller thread never adds, removes or replaces a VM of the
\* Environment: no step of a thread that is inside its loop changes the set
\* of registered VMs, and every change of that set is a step of preprocess
\* on the main thread
C38_PollersLeaveEnvironment ==
    [][/\ \A s \in Slots :
             (Running(s) /\ pollers'[s] # pollers[s] /\ poll_pc' = poll_pc)
                 => poll_env' = poll_env
       /\ poll_env' # poll_env
             => /\ poll_pc = "idle"
                /\ poll_pc' = "test"
                /\ \A s \in Slots : Running(s) => pollers'[s] = pollers[s]]_vars

\* during the test the poller started by preprocess has finished a round
\* over the VMs of the Environment, and a poller of an earlier test that
\* outlived its join has done so too
C38_Witness ==
    /\ poll_pc = "test"
    /\ poll_env = PollVms
    /\ poller_thread # NoThread
    /\ \A s \in Slots : pollers[s].pc = "check_none"

(***************************************************************************)
(* Properties of postprocess_vm                                            *)
(***************************************************************************)

\* the close operations of a sequence of operations
Closes(ops) == SelectSeq(ops, LAMBDA o : o.op = "close")

\* the operations of a sequence that are not close operations
AfterCloses(ops) == SelectSeq(ops, LAMBDA o : o.op # "close")

\* C37: postprocess_vm does nothing when the VM is not in the Environment;
\* otherwise it attempts to close every remote session, a failing close
\* stopping none of the others, and it destroys the VM if and only if
\* kill_vm is yes, after waiting for its death if kill_vm_timeout is not
\* zero, gracefully if and only if kill_vm_gracefully is yes
C37_PostprocessVm ==
    pv_pc \in {"returned", "raised"}
        => IF ~pv_registered
           THEN pv_ops = <<>> /\ pv_sessions = pv_sessions0 /\ pv_pc = "returned"
           ELSE LET kill == "kill_vm" \in DOMAIN pv_params
                                /\ pv_params["kill_vm"] = "yes"
                    wait == "kill_vm_timeout" \in DOMAIN pv_params
                                /\ pv_params["kill_vm_timeout"] = "30"
                    gracefully == "kill_vm_gracefully" \in DOMAIN pv_params
                                /\ pv_params["kill_vm_gracefully"] = "yes"
                    n == Len(pv_sessions0)
                IN  /\ Closes(pv_ops) =
                          [i \in 1..n |-> [op |-> "close", arg |-> pv_sessions0[i]]]
                    /\ SubSeq(pv_ops, 1, n) = Closes(pv_ops)
                    /\ AfterCloses(pv_ops) =
                          (IF kill /\ wait
                           THEN <<[op |-> "wait_for", arg |-> 30]>> ELSE <<>>)
                          \o (IF kill
                              THEN <<[op |-> "destroy", arg |-> gracefully]>>
                              ELSE <<>>)
                    /\ pv_pc = "raised" => kill

\* the close of the first of two sessions failed, the second was closed,
\* and the VM was waited for and then destroyed gracefully
C37_Witness ==
    /\ pv_pc = "returned"
    /\ Len(pv_sessions0) = 2
    /\ pv_sessions = <<pv_sessions0[1]>>
    /\ Len(pv_ops) = 4
    /\ pv_ops[3].op = "wait_for"
    /\ pv_ops[4] = [op |-> "destroy", arg |-> TRUE]

====
